---------------------------- MODULE Spec2Model ----------------------------
(***************************************************************************)
(* Model of the Wanggan GPS library (src/wanggan_gps.py) and of its GUI    *)
(* (src/wanggan_gps_gui.py).                                               *)
(*                                                                         *)
(* The specifications share the variables of this module:                  *)
(*   Spec        the serial session: connect / disconnect / send_trigger / *)
(*               receive_data / download, with the device as environment;  *)
(*   FairSpec    Spec plus weak fairness of the program's own steps;       *)
(*   ParseSpec   parse_raw_data run line by line over bounded buffers;     *)
(*   HeaderSpec  parse_raw_data over generated header lines;               *)
(*   ReparseSpec parse_raw_data called several times in a row;             *)
(*   CoordSpec   parse_raw_data over generated coordinate lines;           *)
(*   CaptureSpec Spec followed by the RAW export of a download's bytes;    *)
(*   ExportSpec  export_tracks over bounded buffers, formats and modes;    *)
(*   RunOnSpec   parse_raw_data over lines with text after a record;       *)
(*   WithSpec    the session inside a `with` block;                        *)
(*   GuiSpec     the screens of the EasyGUI application.                   *)
(*                                                                         *)
(* Time is counted in ticks of the polling sleep (time.sleep(0.05)).  All   *)
(* time.time() reads of one loop iteration see the same tick; time passes  *)
(* in the sleeps, which may overshoot (MaxJitter).                         *)
(***************************************************************************)
EXTENDS Integers, Sequences, FiniteSets, TLC

(***************************************************************************)
(* Bounds of the model.                                                    *)
(***************************************************************************)
\* bytes the device delivers in one behaviour
MaxBytes == 3
\* largest hard timeout passed to receive_data, in ticks
MaxTimeout == 4
\* largest idle_timeout passed to receive_data, in ticks
MaxIdle == 1
\* longest a time.sleep(0.05) may take, in ticks
MaxJitter == 2
\* API calls made before the reception (connect, disconnect, send_trigger)
MaxSetupOps == 2

(***************************************************************************)
(* Program constants.                                                      *)
(***************************************************************************)
\* time.sleep(0.2) before polling, in ticks of 0.05 s
SettleTicks == 4
\* time.sleep(2) after opening the port, in ticks of 0.05 s
ConnectTicks == 40
\* the first reading of the clock (time.time() is far from 0.0)
Epoch == 1

\* DownloadMode: the trigger byte of each mode
DownloadMode == [TILDE |-> 126, EXCLAMATION |-> 33, CARET |-> 94]

Modes == DOMAIN DownloadMode

\* Python values returned by the API: None, a bool, or a bytes object
NoneVal == [kind |-> "None", val |-> <<>>]

BoolVal(b) == [kind |-> IF b THEN "True" ELSE "False", val |-> <<>>]

BytesVal(b) == [kind |-> "bytes", val |-> b]

\* Python truthiness of a value returned by receive_data (None and b'' are falsy)
Truthy(v) == v.kind = "bytes" /\ v.val # <<>>

\* last_data_time = None
NoTime == -1

\* truthiness of last_data_time: None and 0.0 are falsy
TimeSet(t) == t # NoTime /\ t # 0

\* the byte ids a..b in order
RECURSIVE Run(_, _)
Run(a, b) == IF a > b THEN <<>> ELSE <<a>> \o Run(a + 1, b)

VARIABLES
    \* ---- transport (serial.Serial) and device ----
    serial_conn,      \* "None" | "open" | "closed"
    rxbuf,            \* bytes waiting in the input buffer (in_waiting = Len)
    written,          \* bytes written to the device, in order
    dev_sent,         \* number of bytes the device has delivered (ids 1..dev_sent)
    rx_mark,          \* device bytes purged from the input buffer (reset or re-open)
    last_arrival,     \* tick at which the device delivered its latest byte
    now,              \* time.time(), in ticks
    \* ---- the call in progress ----
    call,             \* "none" | "receive_data" | "download"
    pc,               \* "idle" | "loop" | "exit" | "tail" | "returned"
    ops,              \* setup calls made so far (0 again once the reception is called)
    mode, save_raw, raw_filename,
    timeout, idle_timeout,
    start_time, last_data_time, all_data, chunks_received,
    reason,           \* how the while loop ended: "none" | "idle" | "hard"
    recv_ret,         \* value returned by receive_data
    ret,              \* value returned by the latest completed call (None while one runs)
    raw_file,         \* content of the raw capture file written by download
    io,               \* transport operations of the latest call, in order (a repeated
                      \* in_waiting or read is logged once)
    \* ---- parse_raw_data ----
    data, lines, current_header, current_points, tracks, ppc,
    heap,             \* the list objects made by `tracks = []`, in order of creation
    returned,         \* the calls of parse_raw_data that have ended, in order
    \* ---- export_tracks ----
    format,           \* the value of the OutputFormat member passed
    split_by_track, filename_prefix,
    epc,              \* "idle" | "called" | "parsing" | "loop" | "returned"
    idx,              \* enumerate index of the per-track loop
    created_files,    \* the list export_tracks returns: paths inside output_dir
    files,            \* the files written into output_dir, in order: <<path, content>>
    \* ---- the application: a `with` block, or the GUI (wanggan_gps_gui.py) ----
    gui,              \* the fields of the WangganGPSGUI object
    apc,              \* where the application is: "idle" when none is modelled
    msgbox            \* the message box shown last

transportVars == <<serial_conn, rxbuf, written, dev_sent, rx_mark, last_arrival,
                   now>>

callVars == <<call, pc, ops, mode, save_raw, raw_filename, timeout, idle_timeout>>

recvVars == <<start_time, last_data_time, all_data, chunks_received, reason, recv_ret>>

outVars == <<ret, raw_file>>

sessionVars == <<transportVars, callVars, recvVars, outVars, io>>

parseVars == <<data, lines, current_header, current_points, tracks, ppc, heap, returned>>

exportVars == <<format, split_by_track, filename_prefix, epc, idx, created_files, files>>

appVars == <<gui, apc, msgbox>>

vars == <<sessionVars, parseVars, exportVars, appVars>>

IsOpen == serial_conn = "open"


(***************************************************************************)
(* The serial session.                                                     *)
(***************************************************************************)
Timeouts == 0..MaxTimeout

IdleTimeouts == 0..MaxIdle

\* where an exception can strike inside send_trigger's try block
TriggerFaults == {"none", "reset", "write", "flush"}

SessionInit ==
    /\ serial_conn = "None"
    /\ rxbuf = <<>>
    /\ written = <<>>
    /\ dev_sent = 0
    /\ rx_mark = 0
    /\ last_arrival = NoTime
    /\ now = Epoch
    /\ call = "none"
    /\ pc = "idle"
    /\ ops = 0
    /\ mode = "TILDE"
    /\ save_raw = FALSE
    /\ raw_filename = "None"
    /\ timeout = 0
    /\ idle_timeout = 0
    /\ start_time = 0
    /\ last_data_time = NoTime
    /\ all_data = <<>>
    /\ chunks_received = 0
    /\ reason = "none"
    /\ recv_ret = NoneVal
    /\ ret = NoneVal
    /\ raw_file = NoneVal
    /\ io = <<>>

\* one operation on serial.Serial: its name, the bytes passed, and whether
\* it returned (TRUE) or raised (FALSE)
Ev(op, arg, ok) == [op |-> op, arg |-> arg, ok |-> ok]

\* the log with e added, unless e is in it already
Logged(log, e) == IF \E k \in 1..Len(log) : log[k] = e THEN log ELSE Append(log, e)

\* line 181: self.serial_conn.in_waiting
Poll == Ev("in_waiting", <<>>, TRUE)

\* line 182: self.serial_conn.read(...)
Read == Ev("read", <<>>, TRUE)

\* ---- the device: after a trigger byte it delivers bytes whenever it likes ----
Deliver ==
    /\ UNCHANGED <<parseVars, exportVars, appVars>>
    /\ IsOpen
    /\ written # <<>>
    /\ pc # "returned"
    /\ dev_sent < MaxBytes
    /\ dev_sent' = dev_sent + 1
    /\ rxbuf' = Append(rxbuf, dev_sent + 1)
    /\ last_arrival' = now
    /\ UNCHANGED <<serial_conn, written, rx_mark, now, callVars, recvVars, outVars, io>>

\* ---- connect(): serial.Serial(...) succeeds or raises ----
ConnectOk ==
    /\ serial_conn' = "open"
    /\ rxbuf' = <<>>
    /\ rx_mark' = dev_sent
    /\ now' = now + ConnectTicks

ConnectFail == UNCHANGED <<serial_conn, rxbuf, rx_mark, now>>

Connect ==
    /\ UNCHANGED <<parseVars, exportVars, appVars>>
    /\ call = "none" /\ pc = "idle" /\ ops < MaxSetupOps
    /\ ops' = ops + 1
    /\ \/ ConnectOk /\ ret' = BoolVal(TRUE) /\ io' = <<Ev("open", <<>>, TRUE)>>
       \/ ConnectFail /\ ret' = BoolVal(FALSE) /\ io' = <<Ev("open", <<>>, FALSE)>>
    /\ UNCHANGED <<written, dev_sent, last_arrival, recvVars, raw_file,
                   call, pc, mode, save_raw, raw_filename, timeout, idle_timeout>>

\* ---- disconnect() ----
\* (mutant) disconnect leaves the connection as it is
DisconnectedKept(conn) == conn

\* Lines 120-121: an open connection is closed; None and a closed
\* connection are left alone.
Disconnected(conn) == IF conn = "open" THEN "closed" ELSE conn

Disconnect ==
    /\ UNCHANGED <<parseVars, exportVars, appVars>>
    /\ call = "none" /\ pc = "idle" /\ ops < MaxSetupOps
    /\ ops' = ops + 1
    /\ serial_conn' = Disconnected(serial_conn)
    /\ io' = IF IsOpen THEN <<Ev("close", <<>>, TRUE)>> ELSE <<>>
    /\ ret' = NoneVal
    /\ UNCHANGED <<rxbuf, written, dev_sent, rx_mark, last_arrival, now, recvVars,
                   raw_file, call, pc, mode, save_raw, raw_filename, timeout, idle_timeout>>

\* ---- send_trigger(m): the try block with an exception at `fault` ----
\* the input buffer after send_trigger
TriggerRxbuf(fault) == IF fault = "reset" THEN rxbuf ELSE <<>>

\* (mutant) the full-track trigger whatever the mode
TriggerBytesTilde(m) == <<DownloadMode.TILDE>>

\* line 148: bytes([mode.value])
TriggerBytes(m) == <<DownloadMode[m]>>

\* the bytes written after send_trigger(m)
TriggerWritten(m, fault) ==
    IF fault \in {"reset", "write"} THEN written ELSE written \o TriggerBytes(m)

\* lines 147-149: the operations send_trigger(m) makes on the transport
TriggerIo(m, fault) ==
    <<Ev("reset_input_buffer", <<>>, fault # "reset")>>
        \o (IF fault = "reset" THEN <<>>
            ELSE <<Ev("write", TriggerBytes(m), fault # "write")>>)
        \o (IF fault \in {"reset", "write"} THEN <<>>
            ELSE <<Ev("flush", <<>>, fault # "flush")>>)

\* (mutant) only a failed reset_input_buffer makes send_trigger return False
TriggerFailedBeforeWrite(fault) == fault = "reset"

\* lines 150-153: send_trigger returns False when its try block raised
TriggerFailed(fault) == fault # "none"

\* Lines 147-148: reset_input_buffer() and write() are two calls.  A device
\* that an earlier trigger set streaming may deliver a byte between them
\* (the calls are consecutive, so no more than one byte time passes).
WindowArrivals(fault) ==
    IF fault = "reset" \/ written = <<>> THEN {0}
    ELSE {k \in {0, 1} : dev_sent + k <= MaxBytes}

\* send_trigger on an open connection, called at tick `at`
TriggerEffect(m, fault, at) ==
    \E k \in WindowArrivals(fault) :
        /\ rxbuf' = TriggerRxbuf(fault) \o Run(dev_sent + 1, dev_sent + k)
        /\ written' = TriggerWritten(m, fault)
        /\ rx_mark' = IF fault = "reset" THEN rx_mark ELSE dev_sent
        /\ dev_sent' = dev_sent + k
        /\ last_arrival' = IF k > 0 THEN at ELSE last_arrival

SendTrigger ==
    /\ UNCHANGED <<parseVars, exportVars, appVars>>
    /\ call = "none" /\ pc = "idle" /\ ops < MaxSetupOps
    /\ ops' = ops + 1
    /\ \E m \in Modes, fault \in TriggerFaults :
          IF IsOpen
          THEN /\ TriggerEffect(m, fault, now)
               /\ io' = TriggerIo(m, fault)
               /\ ret' = BoolVal(~TriggerFailed(fault))
          ELSE /\ ret' = BoolVal(FALSE) /\ io' = <<>>
               /\ UNCHANGED <<rxbuf, written, rx_mark, dev_sent, last_arrival>>
    /\ UNCHANGED <<serial_conn, now, recvVars, raw_file,
                   call, pc, mode, save_raw, raw_filename, timeout, idle_timeout>>

\* ---- receive_data(timeout, idle_timeout) ----
\* lines 172-178: settle, then the locals of the loop
ReceiveBegin(t, i, from) ==
    /\ timeout' = t
    /\ idle_timeout' = i
    /\ now' = from + SettleTicks
    /\ start_time' = now'
    /\ last_data_time' = NoTime
    /\ all_data' = <<>>
    /\ chunks_received' = 0
    /\ reason' = "none"
    /\ pc' = "loop"

ReceiveCall ==
    /\ UNCHANGED <<parseVars, exportVars, appVars>>
    /\ call = "none" /\ pc = "idle"
    /\ call' = "receive_data"
    /\ ops' = 0
    /\ io' = <<>>
    /\ \E t \in Timeouts, i \in IdleTimeouts :
          IF IsOpen
          THEN /\ ReceiveBegin(t, i, now)
               /\ ret' = NoneVal
               /\ UNCHANGED recv_ret
          ELSE /\ recv_ret' = NoneVal
               /\ ret' = NoneVal
               /\ pc' = "returned"
               /\ timeout' = t
               /\ idle_timeout' = i
               /\ UNCHANGED <<now, start_time, last_data_time, all_data, chunks_received, reason>>
    /\ UNCHANGED <<serial_conn, rxbuf, written, dev_sent, rx_mark, last_arrival,
                   mode, save_raw, raw_filename, raw_file>>

\* (mutant) the hard deadline restarts with every chunk
LoopGuardFromLastData ==
    now - (IF last_data_time > start_time THEN last_data_time ELSE start_time) < timeout

\* line 180: the while condition
LoopGuard == now - start_time < timeout

\* (mutant) the idle rule without the "data was received" guard
IdleExpiredUnarmed == now - last_data_time >= idle_timeout

\* line 192: the idle rule
IdleExpired == TimeSet(last_data_time) /\ now - last_data_time >= idle_timeout

\* (mutant) the chunk is put in front of the buffer
AccumulateInFront(buf, chunk) == chunk \o buf

\* line 183: all_data += chunk
Accumulate(buf, chunk) == buf \o chunk

\* (mutant) the idle clock is set by the first chunk only
IdleClockFirstChunkOnly == IF last_data_time = NoTime THEN now ELSE last_data_time

\* line 185: last_data_time = time.time()
IdleClockAfterRead == now

\* line 196: time.sleep(0.05)
Sleep == \E d \in 1..MaxJitter : now' = now + d

loopFrame == <<serial_conn, written, dev_sent, rx_mark, last_arrival, callVars,
               outVars, recv_ret>>

\* one iteration that finds in_waiting > 0
LoopRead ==
    /\ UNCHANGED <<parseVars, exportVars, appVars>>
    /\ pc = "loop" /\ LoopGuard
    /\ rxbuf # <<>>
    /\ all_data' = Accumulate(all_data, rxbuf)
    /\ rxbuf' = <<>>
    /\ chunks_received' = chunks_received + 1
    /\ last_data_time' = IdleClockAfterRead
    /\ io' = Logged(Logged(io, Poll), Read)
    /\ Sleep
    /\ UNCHANGED <<loopFrame, start_time, reason>>

\* one iteration that finds nothing and keeps waiting
LoopWait ==
    /\ UNCHANGED <<parseVars, exportVars, appVars>>
    /\ pc = "loop" /\ LoopGuard
    /\ rxbuf = <<>>
    /\ ~IdleExpired
    /\ io' = Logged(io, Poll)
    /\ Sleep
    /\ UNCHANGED <<loopFrame, rxbuf, start_time, last_data_time, all_data, chunks_received, reason>>

\* the iteration that finds nothing after idle_timeout of silence: break
LoopIdleBreak ==
    /\ UNCHANGED <<parseVars, exportVars, appVars>>
    /\ pc = "loop" /\ LoopGuard
    /\ rxbuf = <<>>
    /\ IdleExpired
    /\ io' = Logged(io, Poll)
    /\ reason' = "idle"
    /\ pc' = "exit"
    /\ UNCHANGED <<transportVars, call, ops, mode, save_raw, raw_filename, timeout, idle_timeout,
                   start_time, last_data_time, all_data, chunks_received, recv_ret, outVars>>

\* the while condition fails: the hard timeout
LoopExitHard ==
    /\ UNCHANGED <<parseVars, exportVars, appVars>>
    /\ pc = "loop" /\ ~LoopGuard
    /\ reason' = "hard"
    /\ pc' = "exit"
    /\ UNCHANGED io
    /\ UNCHANGED <<transportVars, call, ops, mode, save_raw, raw_filename, timeout, idle_timeout,
                   start_time, last_data_time, all_data, chunks_received, recv_ret, outVars>>

\* line 201: return all_data if all_data else None
ReceiveResult(buf) == IF buf # <<>> THEN BytesVal(buf) ELSE NoneVal

ReceiveReturn ==
    /\ UNCHANGED <<parseVars, exportVars, appVars>>
    /\ pc = "exit"
    /\ recv_ret' = ReceiveResult(all_data)
    /\ IF call = "receive_data"
       THEN ret' = recv_ret' /\ pc' = "returned"
       ELSE ret' = ret /\ pc' = "tail"
    /\ UNCHANGED <<transportVars, call, ops, mode, save_raw, raw_filename, timeout, idle_timeout,
                   start_time, last_data_time, all_data, chunks_received, reason,
                   raw_file, io>>

\* download goes on although connect() returned False
DownloadProceedsAlways(connected) == TRUE

\* Lines 220-222: download goes on to the trigger only with an open port;
\* when it had to call connect() and that returned False it returns None.
DownloadProceeds(connected) == connected

\* ---- download(mode, save_raw, raw_filename) ----
\* Lines 220-229.  download calls receive_data() with the defaults
\* (DOWNLOAD_TIMEOUT = 60 s, idle_timeout = 3 s: 1200 and 60 ticks); the
\* loop is explored for the bounded timeouts instead.
DownloadCall ==
    /\ UNCHANGED <<parseVars, exportVars, appVars>>
    /\ call = "none" /\ pc = "idle"
    /\ call' = "download"
    /\ ops' = 0
    /\ \E m \in Modes, connected \in BOOLEAN, fault \in TriggerFaults,
          t \in Timeouts, i \in IdleTimeouts :
          /\ mode' = m
          /\ IsOpen => connected
          /\ serial_conn' = IF connected THEN "open" ELSE serial_conn
          /\ io' = (IF IsOpen THEN <<>> ELSE <<Ev("open", <<>>, connected)>>)
                       \o (IF DownloadProceeds(connected)
                           THEN TriggerIo(m, fault) ELSE <<>>)
          /\ IF ~DownloadProceeds(connected)
             THEN \* connect() failed: return None
                  /\ ret' = NoneVal
                  /\ pc' = "returned"
                  /\ UNCHANGED <<rxbuf, written, rx_mark, now, recvVars,
                                 timeout, idle_timeout, dev_sent, last_arrival>>
             ELSE /\ TriggerEffect(m, fault, IF IsOpen THEN now ELSE now + ConnectTicks)
                  /\ IF TriggerFailed(fault)
                     THEN \* send_trigger failed: return None
                          /\ ret' = NoneVal
                          /\ pc' = "returned"
                          /\ now' = IF IsOpen THEN now ELSE now + ConnectTicks
                          /\ UNCHANGED <<recvVars, timeout, idle_timeout>>
                     ELSE /\ ReceiveBegin(t, i, IF IsOpen THEN now ELSE now + ConnectTicks)
                          /\ ret' = NoneVal
                          /\ UNCHANGED recv_ret
    /\ UNCHANGED <<save_raw, raw_filename, raw_file>>

\* line 234: if save_raw or raw_filename
WantsRawFile(sr, rf) == sr \/ rf # "None"

\* Lines 231-246: save the raw capture, return data.  The arguments save_raw
\* and raw_filename are first read here.
DownloadTail ==
    /\ UNCHANGED <<parseVars, exportVars, appVars>>
    /\ pc = "tail"
    /\ \E sr \in BOOLEAN, rf \in {"None", "custom.txt"} :
          /\ save_raw' = sr
          /\ raw_filename' = rf
          /\ raw_file' = IF Truthy(recv_ret) /\ WantsRawFile(sr, rf)
                         THEN BytesVal(recv_ret.val)
                         ELSE raw_file
    /\ ret' = recv_ret
    /\ pc' = "returned"
    /\ UNCHANGED <<transportVars, call, ops, mode, timeout, idle_timeout, recvVars, io>>

\* ---- export_tracks(data, format, split_by_track, filename_prefix) ----
\* lines 44-49: the values of OutputFormat
OutputFormat == [GPX |-> "gpx", KML |-> "kml", CSV |-> "csv", RAW |-> "raw"]

\* no call of export_tracks made yet, nothing in output_dir
ExportIdle ==
    /\ format = OutputFormat.KML
    /\ split_by_track = FALSE
    /\ filename_prefix = "track"
    /\ epc = "idle"
    /\ idx = 0
    /\ created_files = <<>>
    /\ files = <<>>

\* ---- the application ----
\* wanggan_gps_gui.py lines 48-58: WangganGPSGUI.__init__.  timeout is
\* counted in thousandths of a second (1.0 is 1000).
GuiDefaults ==
    [gps             |-> "None",
     connected       |-> FALSE,
     port            |-> "COM5",
     baudrate        |-> 115200,
     timeout         |-> 1000,
     output_dir      |-> "downloads",
     auto_create_dir |-> TRUE]

\* no application is modelled: the library is called directly
AppIdle ==
    /\ gui = GuiDefaults
    /\ apc = "idle"
    /\ msgbox = "none"

\* line 516: self.output_dir / f"{filename_prefix}.txt"
RawPath(prefix) == prefix \o ".txt"

\* (mutant) the raw export is written without its last byte
RawContentStripped(bytes) == SubSeq(bytes, 1, Len(bytes) - 1)

\* line 518: f.write(data)
RawContent(bytes) == bytes

\* Lines 591-594 of download_and_export: a download that returned bytes
\* passes them to export_tracks, here with format RAW.
ExportRawCall ==
    /\ call = "download" /\ pc = "returned" /\ Truthy(ret)
    /\ epc = "idle"
    /\ data' = ret.val
    /\ format' = OutputFormat.RAW
    /\ split_by_track' = FALSE
    /\ filename_prefix' = "track"
    /\ epc' = "called"
    /\ UNCHANGED <<appVars, sessionVars, lines, current_header, current_points, tracks, ppc, heap,
                   returned, idx, created_files, files>>

\* lines 514-519: format RAW writes the bytes and returns the one path
ExportRaw ==
    /\ epc = "called" /\ format = OutputFormat.RAW
    /\ files' = Append(files, <<RawPath(filename_prefix), RawContent(data)>>)
    /\ created_files' = <<RawPath(filename_prefix)>>
    /\ epc' = "returned"
    /\ UNCHANGED <<appVars, sessionVars, parseVars, format, split_by_track, filename_prefix, idx>>

SessionNext ==
    \/ Connect
    \/ Disconnect
    \/ SendTrigger
    \/ ReceiveCall
    \/ DownloadCall
    \/ Deliver
    \/ LoopRead
    \/ LoopWait
    \/ LoopIdleBreak
    \/ LoopExitHard
    \/ ReceiveReturn
    \/ DownloadTail

\* the steps the program takes by itself once a reception has begun
ProgramStep ==
    \/ LoopRead
    \/ LoopWait
    \/ LoopIdleBreak
    \/ LoopExitHard
    \/ ReceiveReturn
    \/ DownloadTail

(***************************************************************************)
(* parse_raw_data (placeholder state while the session runs).              *)
(***************************************************************************)
ParseIdle ==
    /\ data = <<>>
    /\ lines = <<>>
    /\ current_header = <<>>
    /\ current_points = <<>>
    /\ tracks = <<>>
    /\ ppc = "idle"
    /\ heap = <<>>
    /\ returned = <<>>

Init == SessionInit /\ ParseIdle /\ ExportIdle /\ AppIdle

Next == SessionNext

Spec == Init /\ [][Next]_vars

\* the session followed by the RAW export of what a download returned
CaptureNext ==
    \/ SessionNext
    \/ ExportRawCall
    \/ ExportRaw

CaptureSpec == Init /\ [][CaptureNext]_vars

FairSpec == Spec /\ WF_vars(ProgramStep)

(***************************************************************************)
(* WithSpec: the library used in a block `with WangganGPS(...) as gps:`.   *)
(***************************************************************************)
\* the transport log of one disconnect()
CloseIo == IF IsOpen THEN <<Ev("close", <<>>, TRUE)>> ELSE <<>>

\* the `with` statement is about to be executed on a new object
WithInit ==
    /\ gui = GuiDefaults
    /\ apc = "with"
    /\ msgbox = "none"

\* Lines 123-126: __enter__ calls connect() (the first of the setup calls),
\* drops its result and returns self, so the block is entered with or
\* without a connection.
WithEnter ==
    /\ apc = "with"
    /\ apc' = "body"
    /\ ops' = ops + 1
    /\ \/ ConnectOk /\ io' = <<Ev("open", <<>>, TRUE)>>
       \/ ConnectFail /\ io' = <<Ev("open", <<>>, FALSE)>>
    /\ UNCHANGED <<written, dev_sent, last_arrival, recvVars, outVars,
                   call, pc, mode, save_raw, raw_filename, timeout, idle_timeout,
                   gui, msgbox, parseVars, exportVars>>

\* the statements of the block: calls of the library on the object
WithBody ==
    /\ apc = "body"
    /\ SessionNext

\* the frame of the call in progress is gone: its arguments, locals and
\* result read as before any call
NoCall ==
    /\ call' = "none" /\ pc' = "idle" /\ ops' = 0
    /\ mode' = "TILDE" /\ save_raw' = FALSE /\ raw_filename' = "None"
    /\ timeout' = 0 /\ idle_timeout' = 0
    /\ start_time' = 0 /\ last_data_time' = NoTime
    /\ all_data' = <<>> /\ chunks_received' = 0
    /\ reason' = "none" /\ recv_ret' = NoneVal
    /\ ret' = NoneVal

\* Lines 128-130: __exit__ calls disconnect() when the block is left at its
\* end (no call is in progress).
WithExit ==
    /\ apc = "body"
    /\ pc \in {"idle", "returned"}
    /\ apc' = "ended"
    /\ serial_conn' = Disconnected(serial_conn)
    /\ io' = CloseIo
    /\ UNCHANGED <<rxbuf, written, dev_sent, rx_mark, last_arrival, now, callVars,
                   recvVars, outVars, gui, msgbox, parseVars, exportVars>>

\* Lines 128-130: an exception raised at any point of the block (between
\* calls or inside one, which it unwinds) reaches __exit__, which calls
\* disconnect() and lets the exception through by returning None.
WithRaise ==
    /\ apc = "body"
    /\ apc' = "raised"
    /\ NoCall
    /\ serial_conn' = Disconnected(serial_conn)
    /\ io' = CloseIo
    /\ UNCHANGED <<rxbuf, written, dev_sent, rx_mark, last_arrival, now, raw_file,
                   gui, msgbox, parseVars, exportVars>>

\* lines 118-121: disconnect() called again after the block
DisconnectAgain ==
    /\ apc \in {"raised", "ended"}
    /\ apc' = "again"
    /\ serial_conn' = Disconnected(serial_conn)
    /\ io' = CloseIo
    /\ UNCHANGED <<rxbuf, written, dev_sent, rx_mark, last_arrival, now, callVars,
                   recvVars, outVars, gui, msgbox, parseVars, exportVars>>

WithNext ==
    \/ WithEnter
    \/ WithBody
    \/ WithExit
    \/ WithRaise
    \/ DisconnectAgain

WithSpecInit == SessionInit /\ ParseIdle /\ ExportIdle /\ WithInit

WithSpec == WithSpecInit /\ [][WithNext]_vars

\* C33: when a `with` block is left, at its end or by an exception raised
\* inside it, no connection is open afterwards; leaving it without an open
\* connection (none was ever opened, or it was closed in the block) closes
\* nothing and changes nothing, and a second disconnect() after the block
\* closes nothing and changes nothing.
C33_WithBlockReleasesTransport ==
    [][/\ (apc = "body" /\ apc' \in {"raised", "ended"}) =>
             /\ serial_conn' # "open"
             /\ serial_conn # "open" => (serial_conn' = serial_conn /\ io' = <<>>)
       /\ (apc \in {"raised", "ended"} /\ apc' = "again") =>
             /\ serial_conn' = serial_conn
             /\ serial_conn' # "open"
             /\ io' = <<>>]_vars

\* C33 witness: an exception ended the block after the device had
\* answered a trigger; the connection was closed, and disconnect() was
\* then called again
C33_Witness ==
    /\ apc = "again"
    /\ call = "none" /\ dev_sent > 0
    /\ serial_conn = "closed"
    /\ io = <<>>


(***************************************************************************)
(* Claims about receive_data and download.                                 *)
(***************************************************************************)
\* the while loop of receive_data has ended (by break or by its condition)
LoopEnded == reason # "none" /\ pc \in {"exit", "tail", "returned"}

\* the hard deadline of the reception in progress
Deadline == start_time + timeout

Max(a, b) == IF a >= b THEN a ELSE b

\* C1: when the device delivers k >= 1 chunks and then stays silent, the
\* reception that ends by the idle rule ends before the hard timeout and
\* with exactly the delivered bytes in arrival order (nothing lost,
\* duplicated or reordered) as its result; and it is the idle rule, not the
\* hard timeout, that ends it whenever idle_timeout of silence (plus the
\* polling sleeps needed to notice the chunk and the silence) fits before
\* the hard deadline.
C1_IdleEndReturnsAllChunks ==
    /\ (LoopEnded /\ reason = "idle")
          => /\ now - start_time < timeout
             /\ chunks_received >= 1
    /\ (LoopEnded /\ reason = "idle" /\ rxbuf = <<>>)
          => all_data = Run(rx_mark + 1, dev_sent)
    /\ (pc = "returned" /\ reason = "idle")
          => ret = BytesVal(all_data)
    /\ (LoopEnded /\ reason = "hard" /\ dev_sent > rx_mark)
          => Deadline <= Max(last_arrival + MaxJitter, start_time) + idle_timeout + MaxJitter

\* C1 witness: three chunks, read by three polls, returned by a reception
\* that the idle rule ended after a silence longer than idle_timeout
C1_Witness ==
    /\ pc = "returned" /\ reason = "idle"
    /\ chunks_received = 3
    /\ idle_timeout >= 1
    /\ now - last_arrival >= idle_timeout
    /\ all_data = <<1, 2, 3>>
    /\ ret = BytesVal(<<1, 2, 3>>)

\* lines 170, 222, 226: what receive_data and download return on a transport error
TransportErrorOutcome == NoneVal

\* C2: a reception on an open connection that ends with zero bytes returns
\* an outcome different from the one returned for a transport error.
C2_EmptyResultDistinctFromError ==
    (pc = "returned" /\ LoopEnded /\ all_data = <<>>) => ret # TransportErrorOutcome

\* C3: the idle rule needs received data: the loop never ends by the idle
\* rule with zero bytes received, whatever idle_timeout is, and a reception
\* that ends with zero bytes ended at the hard timeout.
C3_IdleRuleArmedByFirstData ==
    /\ (LoopEnded /\ reason = "idle") => (chunks_received >= 1 /\ all_data # <<>>)
    /\ (LoopEnded /\ all_data = <<>>) => (reason = "hard" /\ now - start_time >= timeout)

\* C3 witness: a silent device, idle_timeout 0, several empty polls, ended
\* by the hard timeout
C3_Witness ==
    /\ pc = "returned" /\ reason = "hard"
    /\ idle_timeout = 0 /\ timeout >= 2
    /\ chunks_received = 0 /\ dev_sent = 0
    /\ now - start_time >= 2

OpsAt(names) == {k \in 1..Len(io) : io[k].op \in names}

\* the positions in the log of the operations that raised
FailedAt == {k \in 1..Len(io) : ~io[k].ok}

\* C17: within one download the port is opened at most once and the
\* trigger written at most once; when opening the port, resetting the
\* input buffer, the write or the flush fails, that operation is the last
\* one made on the transport (nothing is retried, polled or read) and
\* download has returned None.
C17_FailureEndsDownload ==
    call = "download" =>
        /\ Cardinality(OpsAt({"write"})) <= 1
        /\ Cardinality(OpsAt({"open"})) <= 1
        /\ FailedAt # {} => /\ FailedAt = {Len(io)}
                            /\ OpsAt({"in_waiting", "read"}) = {}
                            /\ pc = "returned"
                            /\ ret = NoneVal

\* C17 witness: the flush after the write of the trigger raised
C17_Witness ==
    /\ call = "download" /\ pc = "returned"
    /\ Len(io) = 3
    /\ io[2] = Ev("write", <<DownloadMode[mode]>>, TRUE)
    /\ io[3] = Ev("flush", <<>>, FALSE)
    /\ ret = NoneVal

\* the trigger byte of each mode, as documented
TriggerByteOf(m) == IF m = "TILDE" THEN 126 ELSE IF m = "EXCLAMATION" THEN 33 ELSE 94

\* C18: in every download that reaches the reception, the transport has
\* seen, before the first in_waiting or read, the write of exactly one byte,
\* the trigger of the selected mode (0x7E, 0x21, 0x5E), followed by the
\* flush, both successful; and that write is the only one of the download.
C18_TriggerBeforeFirstPoll ==
    (call = "download" /\ (pc \in {"loop", "exit", "tail"} \/ OpsAt({"in_waiting", "read"}) # {}))
        => \E w \in 1..Len(io) :
              /\ io[w] = Ev("write", <<TriggerByteOf(mode)>>, TRUE)
              /\ w < Len(io) /\ io[w + 1] = Ev("flush", <<>>, TRUE)
              /\ OpsAt({"write"}) = {w}
              /\ \A k \in OpsAt({"in_waiting", "read"}) : k > w + 1
              /\ written # <<>> /\ written[Len(written)] = TriggerByteOf(mode)

\* C18 witness: a bulk download (0x21) that has polled and read
C18_Witness ==
    /\ call = "download" /\ pc = "returned"
    /\ mode = "EXCLAMATION"
    /\ io = <<Ev("reset_input_buffer", <<>>, TRUE), Ev("write", <<33>>, TRUE),
              Ev("flush", <<>>, TRUE), Poll, Read>>
    /\ ret = BytesVal(all_data)


(***************************************************************************)
(* parse_raw_data and the line grammars.  Bytes and characters are         *)
(* one-character strings; a byte >= 0x80 is written "0x80".                *)
(***************************************************************************)
\* lines held by one buffer
MaxLines == 3

Digit == {"0", "1", "2", "3", "4", "5", "6", "7", "8", "9"}

LowerCase == {"a", "b", "c", "d", "e", "f", "g", "h", "i", "j", "k", "l", "m",
              "n", "o", "p", "q", "r", "s", "t", "u", "v", "w", "x", "y", "z"}

\* the characters str.strip() removes (those of the model's alphabet)
Whitespace == {" ", "\t", "\n", "\r", "\f"}

\* bytes that bytes.decode('ascii', errors='ignore') drops
NonAscii == {"0x80", "0xFF"}

DigitValue(c) ==
    CASE c = "0" -> 0 [] c = "1" -> 1 [] c = "2" -> 2 [] c = "3" -> 3 [] c = "4" -> 4
      [] c = "5" -> 5 [] c = "6" -> 6 [] c = "7" -> 7 [] c = "8" -> 8 [] c = "9" -> 9

Min(a, b) == IF a <= b THEN a ELSE b

\* Python None, and a value that is not None
None == <<>>

Some(v) == <<v>>

\* int(s) for a string of digits with an optional sign
RECURSIVE DigitsToInt(_)
DigitsToInt(ds) ==
    IF ds = <<>> THEN 0
    ELSE DigitsToInt(SubSeq(ds, 1, Len(ds) - 1)) * 10 + DigitValue(ds[Len(ds)])

ToInt(s) ==
    IF s # <<>> /\ s[1] = "-" THEN 0 - DigitsToInt(Tail(s))
    ELSE IF s # <<>> /\ s[1] = "+" THEN DigitsToInt(Tail(s))
    ELSE DigitsToInt(s)

\* the characters of cs as one string
RECURSIVE Str(_)
Str(cs) == IF cs = <<>> THEN "" ELSE cs[1] \o Str(Tail(cs))

\* s[a:b]
Slice(s, a, b) == SubSeq(s, a + 1, Min(b, Len(s)))

\* data.decode('ascii', errors='ignore')
IsAscii(b) == b \notin NonAscii

\* (mutant) errors='replace': a byte that is not ASCII becomes "?"
DecodeReplace(bytes) ==
    [i \in 1..Len(bytes) |-> IF IsAscii(bytes[i]) THEN bytes[i] ELSE "?"]

Decode(bytes) == SelectSeq(bytes, IsAscii)

\* text.split('\n')
\* the position of the first "\n" of s at or after i, 0 if there is none
FindNewline(s, i) ==
    IF i > Len(s) THEN 0
    ELSE LET j == CHOOSE j \in i..(Len(s) + 1) :
                      /\ j > Len(s) \/ s[j] = "\n"
                      /\ \A k \in i..(j - 1) : s[k] # "\n"
         IN  IF j > Len(s) THEN 0 ELSE j

RECURSIVE Split(_)
Split(text) ==
    LET k == FindNewline(text, 1)
    IN  IF k = 0 THEN <<text>>
        ELSE <<SubSeq(text, 1, k - 1)>> \o Split(SubSeq(text, k + 1, Len(text)))

\* line.strip()
RECURSIVE LStrip(_)
LStrip(s) == IF s # <<>> /\ s[1] \in Whitespace THEN LStrip(Tail(s)) ELSE s

RECURSIVE RStrip(_)
RStrip(s) ==
    IF s # <<>> /\ s[Len(s)] \in Whitespace THEN RStrip(SubSeq(s, 1, Len(s) - 1)) ELSE s

Strip(s) == RStrip(LStrip(s))

\* ---- regular expressions: a match returns the next position, 0 on failure ----
MatchChar(s, i, c) == IF i = 0 \/ i > Len(s) \/ s[i] # c THEN 0 ELSE i + 1

MatchIn(s, i, class) == IF i = 0 \/ i > Len(s) \/ s[i] \notin class THEN 0 ELSE i + 1

\* the position after the digits of s that start at i
SkipDigits(s, i) ==
    IF i > Len(s) THEN i
    ELSE CHOOSE j \in i..(Len(s) + 1) :
            /\ j > Len(s) \/ s[j] \notin Digit
            /\ \A k \in i..(j - 1) : s[k] \in Digit

\* \d+
MatchDigits(s, i) == IF MatchIn(s, i, Digit) = 0 THEN 0 ELSE SkipDigits(s, i)

\* (mutant) -?\d+ : a scaled integer may carry a minus sign
MatchSignedDigits(s, i) ==
    IF MatchChar(s, i, "-") # 0 THEN MatchDigits(s, i + 1) ELSE MatchDigits(s, i)

\* line 313: the (\d+) of the two scaled-integer fields of a header
MatchScaled(s, i) == MatchDigits(s, i)

\* [+-]\d+d\d+\'\d+\.\d+"
MatchDms(s, i) ==
    LET p1 == MatchIn(s, i, {"+", "-"})
        p2 == MatchDigits(s, p1)
        p3 == MatchChar(s, p2, "d")
        p4 == MatchDigits(s, p3)
        p5 == MatchChar(s, p4, "'")
        p6 == MatchDigits(s, p5)
        p7 == MatchChar(s, p6, ".")
        p8 == MatchDigits(s, p7)
    IN  MatchChar(s, p8, "\"")

\* digits without their trailing zeros
RECURSIVE DropTrailingZeros(_)
DropTrailingZeros(ds) ==
    IF ds # <<>> /\ ds[Len(ds)] = "0" THEN DropTrailingZeros(SubSeq(ds, 1, Len(ds) - 1)) ELSE ds

RECURSIVE Pow10(_)
Pow10(n) == IF n = 0 THEN 1 ELSE 10 * Pow10(n - 1)

\* (mutant) the sign is applied to the degrees only
DmsValueSignOnDegrees(sign, degrees, minutes, sec_int, sec_frac) ==
    LET frac  == DropTrailingZeros(sec_frac)
        scale == Len(frac)
    IN  [num   |-> (sign * ToInt(degrees) * 3600 + ToInt(minutes) * 60 + ToInt(sec_int))
                       * Pow10(scale) + ToInt(frac),
         scale |-> scale]

\* Line 266: sign * (float(degrees) + float(minutes)/60 + float(seconds)/3600),
\* kept exactly as the fraction num / (3600 * 10^scale) in lowest decimal scale.
DmsValue(sign, degrees, minutes, sec_int, sec_frac) ==
    LET frac  == DropTrailingZeros(sec_frac)
        scale == Len(frac)
    IN  [num   |-> sign * ((ToInt(degrees) * 3600 + ToInt(minutes) * 60 + ToInt(sec_int))
                              * Pow10(scale) + ToInt(frac)),
         scale |-> scale]

\* parse_dms_coordinate(dms_str)
parse_dms_coordinate(dms_str) ==
    LET p1 == MatchIn(dms_str, 1, {"+", "-"})
        p2 == MatchDigits(dms_str, p1)
        p3 == MatchChar(dms_str, p2, "d")
        p4 == MatchDigits(dms_str, p3)
        p5 == MatchChar(dms_str, p4, "'")
        p6 == MatchDigits(dms_str, p5)
        p7 == MatchChar(dms_str, p6, ".")
        p8 == MatchDigits(dms_str, p7)
        p9 == MatchChar(dms_str, p8, "\"")
    IN  IF p9 = 0 THEN None
        ELSE Some(DmsValue(IF dms_str[1] = "-" THEN 0 - 1 ELSE 1,
                           SubSeq(dms_str, p1, p2 - 1),
                           SubSeq(dms_str, p3, p4 - 1),
                           SubSeq(dms_str, p5, p6 - 1),
                           SubSeq(dms_str, p7, p8 - 1)))

\* int(s) for a string of more digits than sys.int_info.default_max_str_digits
\* raises ValueError (CPython 3.11 and later, and the security releases of
\* 3.8 to 3.10)
IntMaxStrDigits == 4300

IntRaises(s) == Len(s) > IntMaxStrDigits

\* (mutant) re.fullmatch: the pattern has to reach the end of the line
MatchWhole(s, i) == IF i = Len(s) + 1 THEN i ELSE 0

\* Lines 280 and 313: re.match anchors the pattern at the start of the line
\* only; a match that ends at position i stands whatever follows it.
MatchPrefix(s, i) == i

\* line 280: the groups of the coordinate grammar, None without a match
TrackGroups(line) ==
    LET p1 == MatchDms(line, 1)
        p2 == MatchChar(line, p1, ",")
        p3 == MatchDms(line, p2)
        p4 == MatchChar(line, p3, ",")
        p5 == MatchDigits(line, p4)
        p6 == MatchPrefix(line, MatchChar(line, p5, ";"))
    IN  IF p6 = 0 THEN None
        ELSE Some([lon_str |-> SubSeq(line, 1, p1 - 1),
                   lat_str |-> SubSeq(line, p2, p3 - 1),
                   alt_str |-> SubSeq(line, p4, p5 - 1)])

\* parse_track_line(line): None or Some(<<lon, lat, alt>>)
parse_track_line(line) ==
    LET g == TrackGroups(line)
    IN  IF g = None THEN None
        ELSE LET lon == parse_dms_coordinate(g[1].lon_str)
                 lat == parse_dms_coordinate(g[1].lat_str)
             IN  IF lon = None \/ lat = None THEN None
                 ELSE Some(<<lon[1], lat[1], ToInt(g[1].alt_str)>>)

\* line 292: int(alt_str) raises
TrackRaises(line) ==
    LET g == TrackGroups(line)
    IN  /\ g # None
        /\ parse_dms_coordinate(g[1].lon_str) # None
        /\ parse_dms_coordinate(g[1].lat_str) # None
        /\ IntRaises(g[1].alt_str)

\* (mutant) the Distance pair is read in the order of the Area pair
HeaderFieldsDistanceAsArea(field1, value1, field2, value2) ==
    IF field1 = "m" /\ field2 = "l"
    THEN [type |-> "Area", latitude |-> ToInt(value1), longitude |-> ToInt(value2)]
    ELSE IF field1 = "l" /\ field2 = "m"
    THEN [type |-> "Distance", latitude |-> ToInt(value1), longitude |-> ToInt(value2)]
    ELSE IF field1 = "p" /\ field2 = "p"
    THEN [type |-> "Waypoint", latitude |-> ToInt(value1), longitude |-> ToInt(value2)]
    ELSE IF field1 = "k" /\ field2 = "l"
    THEN [type |-> "Track", latitude |-> 0, longitude |-> ToInt(value2)]
    ELSE [type |-> "Unknown(" \o field1 \o "," \o field2 \o ")", latitude |-> 0, longitude |-> 0]

\* (mutant) the k field of a Track header is taken as its latitude
HeaderFieldsTrackLatitude(field1, value1, field2, value2) ==
    IF field1 = "m" /\ field2 = "l"
    THEN [type |-> "Area", latitude |-> ToInt(value1), longitude |-> ToInt(value2)]
    ELSE IF field1 = "l" /\ field2 = "m"
    THEN [type |-> "Distance", latitude |-> ToInt(value2), longitude |-> ToInt(value1)]
    ELSE IF field1 = "p" /\ field2 = "p"
    THEN [type |-> "Waypoint", latitude |-> ToInt(value1), longitude |-> ToInt(value2)]
    ELSE IF field1 = "k" /\ field2 = "l"
    THEN [type |-> "Track", latitude |-> ToInt(value1), longitude |-> ToInt(value2)]
    ELSE [type |-> "Unknown(" \o field1 \o "," \o field2 \o ")", latitude |-> 0, longitude |-> 0]

\* Lines 324-346: kind and coordinates of a header.  int(v) / 10000000.0 is
\* kept as int(v), the number of 1e-7 degrees.
HeaderFields(field1, value1, field2, value2) ==
    IF field1 = "m" /\ field2 = "l"
    THEN [type |-> "Area", latitude |-> ToInt(value1), longitude |-> ToInt(value2)]
    ELSE IF field1 = "l" /\ field2 = "m"
    THEN [type |-> "Distance", latitude |-> ToInt(value2), longitude |-> ToInt(value1)]
    ELSE IF field1 = "p" /\ field2 = "p"
    THEN [type |-> "Waypoint", latitude |-> ToInt(value1), longitude |-> ToInt(value2)]
    ELSE IF field1 = "k" /\ field2 = "l"
    THEN [type |-> "Track", latitude |-> 0, longitude |-> ToInt(value2)]
    ELSE [type |-> "Unknown(" \o field1 \o "," \o field2 \o ")", latitude |-> 0, longitude |-> 0]

\* lines 348-360: f'{year}-{month}-{day} {hour}:{minute}'
FormatTimestamp(timestamp) ==
    Str(Slice(timestamp, 0, 4)) \o "-" \o Str(Slice(timestamp, 4, 6)) \o "-"
        \o Str(Slice(timestamp, 6, 8)) \o " " \o Str(Slice(timestamp, 8, 10)) \o ":"
        \o Str(Slice(timestamp, 10, 12))

\* line 313: the groups of the header grammar, None without a match
HeaderGroups(line) ==
    LET p1  == MatchChar(line, 1, "n")
        p2  == MatchDigits(line, p1)
        p3  == MatchChar(line, p2, ",")
        p4  == MatchIn(line, p3, LowerCase)
        p5  == MatchScaled(line, p4)
        p6  == MatchChar(line, p5, ",")
        p7  == MatchIn(line, p6, LowerCase)
        p8  == MatchScaled(line, p7)
        p9  == MatchChar(line, p8, ";")
        p10 == MatchChar(line, p9, "t")
        p11 == MatchDigits(line, p10)
        p12 == MatchChar(line, p11, ",")
        p13 == MatchChar(line, p12, "N")
        p14 == MatchPrefix(line, MatchDigits(line, p13))
    IN  IF p14 = 0 THEN None
        ELSE Some([record_num |-> SubSeq(line, p1, p2 - 1),
                   field1     |-> line[p3],
                   value1     |-> SubSeq(line, p4, p5 - 1),
                   field2     |-> line[p6],
                   value2     |-> SubSeq(line, p7, p8 - 1),
                   timestamp  |-> SubSeq(line, p10, p11 - 1),
                   total      |-> SubSeq(line, p13, p14 - 1)])

\* parse_header_line(line): None or Some(header dict)
parse_header_line(line) ==
    LET g == HeaderGroups(line)
    IN  IF g = None THEN None
        ELSE LET f == HeaderFields(g[1].field1, g[1].value1, g[1].field2, g[1].value2)
             IN  Some([type          |-> f.type,
                       record_num    |-> ToInt(g[1].record_num),
                       latitude      |-> f.latitude,
                       longitude     |-> f.longitude,
                       timestamp     |-> FormatTimestamp(g[1].timestamp),
                       total_records |-> ToInt(g[1].total)])

\* lines 324-359: one of the int() calls of parse_header_line raises
HeaderRaises(line) ==
    LET g == HeaderGroups(line)
    IN  /\ g # None
        /\ \/ /\ <<g[1].field1, g[1].field2>> \in {<<"m", "l">>, <<"l", "m">>, <<"p", "p">>}
              /\ IntRaises(g[1].value1) \/ IntRaises(g[1].value2)
           \/ /\ <<g[1].field1, g[1].field2>> = <<"k", "l">>
              /\ IntRaises(g[1].value2)
           \/ IntRaises(g[1].record_num)
           \/ IntRaises(g[1].total)

\* lines 386 and 397: the call of parse_header_line or of parse_track_line
\* on this line raises
LineRaises(line) ==
    \/ HeaderRaises(line)
    \/ HeaderGroups(line) = None /\ TrackRaises(line)

\* ---- the buffers parse_raw_data is run on ----
\* an Area header
HdrArea ==
    <<"n","0","0","0","1",",","m","0","4","1","0","0","0","0","0","0","0",",","l","0","0",
      "8","2","3","0","0","0","0","0",";","t","2","0","2","4","0","1","1","5","1","0","3",
      "0",",","N","0","0","0","5">>

\* the same header with a minus sign in its second scaled-integer field
HdrSigned ==
    <<"n","0","0","0","1",",","m","0","4","1","0","0","0","0","0","0","0",",","l","-","0",
      "0","8","2","3","0","0","0","0","0",";","t","2","0","2","4","0","1","1","5","1","0",
      "3","0",",","N","0","0","0","5">>

\* a Track header
HdrTrack ==
    <<"n","2",",","k","0",",","l","8",";","t","2","0","2","4","0","1","1","5","1","0","3",
      "1",",","N","2">>

\* a coordinate line
Coord1 ==
    <<"+","0","0","8","d","3","5","'","2","8",".","8","6","5","4","0","\"",",","+","0","4",
      "1","d","0","6","'","5","2",".","5","8","1","0","0","\"",",","0","1","7","6","9",";">>

\* a coordinate line with blanks around it (CR LF line end)
Coord2 ==
    <<" ","-","8","d","3","5","'","2","9",".","1","\"",",","+","4","1","d","0","6","'","5",
      "3",".","0","\"",",","1","8",";","\r">>

\* the end-of-track sentinel line
SentinelLine ==
    <<"!">>

\* a blank line
BlankLine ==
    <<"\r">>

\* a truncated coordinate line holding a byte that is not ASCII
Junk ==
    <<"+","0","0","8","d","3","5","'","0x80">>

Vocabulary == {HdrArea, HdrSigned, HdrTrack, Coord1, Coord2, SentinelLine, BlankLine, Junk}

\* the lines joined by newlines
RECURSIVE Join(_)
Join(ls) ==
    IF ls = <<>> THEN <<>>
    ELSE IF Len(ls) = 1 THEN ls[1]
    ELSE ls[1] \o <<"\n">> \o Join(Tail(ls))

\* a buffer: up to MaxLines lines, with or without the newline after the last
Buffers ==
    {Join(ls) \o (IF nl THEN <<"\n">> ELSE <<>>) :
        ls \in UNION {[1..n -> Vocabulary] : n \in 0..MaxLines}, nl \in BOOLEAN}

ParseInit ==
    /\ data \in Buffers
    /\ lines = <<>>
    /\ current_header = None
    /\ current_points = <<>>
    /\ tracks = <<>>
    /\ ppc = "start"
    /\ heap = <<>>
    /\ returned = <<>>

\* a Track: the tuple (header, points)
Track(header, points) == [header |-> header, points |-> points]

\* (mutant) a Track without points is not saved
FlushAtHeaderIfPoints == current_points # <<>>

\* (mutant) points received before the first header are not saved
FlushAtHeaderIfHeader == current_header # None

\* (mutant) the Track being built is saved at every header line
FlushAtHeaderAlways == TRUE

\* line 389: if current_header is not None or current_points
FlushAtHeader == current_header # None \/ current_points # <<>>

\* (mutant) the last Track is kept only when it has points
FlushAtEndIfPoints == current_points # <<>>

\* line 402: if current_header is not None or current_points
FlushAtEnd == current_header # None \/ current_points # <<>>

\* (mutant) the new point is put in front
AddPointInFront(points, point) == <<point>> \o points

\* line 399: current_points.append(point)
AddPoint(points, point) == Append(points, point)

\* the stripped line the for loop is at
CurrentLine == Strip(Head(lines))

\* line 382: if not line or line == '!'
Skipped(line) == line = <<>> \/ line = <<"!">>

\* (mutant) the list made by the first call is used again by the later ones
SameList(h) == IF h = <<>> THEN <<<<>>>> ELSE h

\* line 376: tracks = [] -- a new, empty list object
NewList(h) == Append(h, <<>>)

\* the heap once the list `tracks` is bound to holds ts
Store(ts) == [heap EXCEPT ![Len(heap)] = ts]

\* how a call ended: with `return tracks` or with an exception
Ended(outcome, ts) == [data |-> data, obj |-> Len(heap), value |-> ts, outcome |-> outcome]

\* lines 375-380: decode, split, and the locals
ParseBegin ==
    /\ UNCHANGED <<sessionVars, exportVars, appVars>>
    /\ ppc = "start"
    /\ lines' = Split(Decode(data))
    /\ heap' = NewList(heap)
    /\ tracks' = heap'[Len(heap')]
    /\ current_header' = None
    /\ current_points' = <<>>
    /\ ppc' = "lines"
    /\ UNCHANGED <<data, returned>>

\* (mutant) the sentinel closes the Track being built
TracksAfterSkipClosed ==
    IF current_points # <<>>
    THEN Append(tracks, Track(current_header, current_points))
    ELSE tracks

\* line 383: continue -- the Tracks after a dropped line
TracksAfterSkip == tracks

\* lines 381-383: continue
ParseSkip ==
    /\ UNCHANGED <<sessionVars, exportVars, appVars>>
    /\ ppc = "lines" /\ lines # <<>>
    /\ Skipped(CurrentLine)
    /\ lines' = Tail(lines)
    /\ tracks' = TracksAfterSkip
    /\ heap' = Store(tracks')
    /\ UNCHANGED <<data, current_header, current_points, ppc, returned>>

\* lines 386-394: a header line
ParseHeader ==
    /\ UNCHANGED <<sessionVars, exportVars, appVars>>
    /\ ppc = "lines" /\ lines # <<>>
    /\ ~Skipped(CurrentLine)
    /\ ~LineRaises(CurrentLine)
    /\ parse_header_line(CurrentLine) # None
    /\ tracks' = IF FlushAtHeader
                 THEN Append(tracks, Track(current_header, current_points))
                 ELSE tracks
    /\ heap' = Store(tracks')
    /\ current_header' = parse_header_line(CurrentLine)
    /\ current_points' = <<>>
    /\ lines' = Tail(lines)
    /\ UNCHANGED <<data, ppc, returned>>

\* lines 397-399: a coordinate line
ParsePoint ==
    /\ UNCHANGED <<sessionVars, exportVars, appVars>>
    /\ ppc = "lines" /\ lines # <<>>
    /\ ~Skipped(CurrentLine)
    /\ ~LineRaises(CurrentLine)
    /\ parse_header_line(CurrentLine) = None
    /\ parse_track_line(CurrentLine) # None
    /\ current_points' = AddPoint(current_points, parse_track_line(CurrentLine)[1])
    /\ lines' = Tail(lines)
    /\ UNCHANGED <<data, current_header, tracks, ppc, heap, returned>>

\* (mutant) a line of neither grammar ends the Track being built
PointsAfterDiscardCleared == <<>>

\* lines 397-398: `if point:` has no else branch -- the points after a
\* line of neither grammar
PointsAfterDiscard == current_points

\* lines 397-398: neither grammar matches
ParseDiscard ==
    /\ UNCHANGED <<sessionVars, exportVars, appVars>>
    /\ ppc = "lines" /\ lines # <<>>
    /\ ~Skipped(CurrentLine)
    /\ ~LineRaises(CurrentLine)
    /\ parse_header_line(CurrentLine) = None
    /\ parse_track_line(CurrentLine) = None
    /\ lines' = Tail(lines)
    /\ current_points' = PointsAfterDiscard
    /\ UNCHANGED <<data, current_header, tracks, ppc, heap, returned>>

\* lines 401-405: the last track, return tracks
ParseEnd ==
    /\ UNCHANGED <<sessionVars, exportVars, appVars>>
    /\ ppc = "lines" /\ lines = <<>>
    /\ tracks' = IF FlushAtEnd
                 THEN Append(tracks, Track(current_header, current_points))
                 ELSE tracks
    /\ heap' = Store(tracks')
    /\ returned' = Append(returned, Ended("returned", tracks'))
    /\ ppc' = "done"
    /\ UNCHANGED <<data, lines, current_header, current_points>>

ParseNext ==
    \/ ParseBegin
    \/ ParseSkip
    \/ ParseHeader
    \/ ParsePoint
    \/ ParseDiscard
    \/ ParseEnd

ParseSpecInit == SessionInit /\ ParseInit /\ ExportIdle /\ AppIdle

ParseSpec == ParseSpecInit /\ [][ParseNext]_vars


(***************************************************************************)
(* Claims about parse_raw_data.                                            *)
(***************************************************************************)
\* lines 380-383: the stripped lines of a buffer that are neither blank nor "!"
StrippedLines(buf) ==
    LET ls == Split(Decode(buf)) IN [i \in 1..Len(ls) |-> Strip(ls[i])]

Kept(line) == ~Skipped(line)

TokLines(buf) == SelectSeq(StrippedLines(buf), Kept)

\* lines 386-387: the line is taken as a header
IsHeaderLine(line) == parse_header_line(line) # None

\* lines 397-398: the line is taken as a coordinate
IsCoordLine(line) == ~IsHeaderLine(line) /\ parse_track_line(line) # None

\* the positions of the header lines among toks, in order
HeaderPositions(toks) ==
    SelectSeq([i \in 1..Len(toks) |-> i], LAMBDA i : IsHeaderLine(toks[i]))

\* the points of the coordinate lines strictly between positions a and b
RECURSIVE PointsIn(_, _, _)
PointsIn(toks, a, b) ==
    IF a + 1 >= b THEN <<>>
    ELSE (IF IsCoordLine(toks[a + 1]) THEN <<parse_track_line(toks[a + 1])[1]>> ELSE <<>>)
            \o PointsIn(toks, a + 1, b)

\* the position of the header after the h-th one (past the end if none)
NextHeader(toks, hp, h) == IF h < Len(hp) THEN hp[h + 1] ELSE Len(toks) + 1

\* the points of all tracks, in track order
RECURSIVE Flatten(_)
Flatten(ts) == IF ts = <<>> THEN <<>> ELSE ts[1].points \o Flatten(Tail(ts))

HasHeader(t) == t.header # None

\* the buffer of the worked example: signed header, one coordinate line, "!"
ScenarioSigned == Join(<<HdrSigned, Coord1, SentinelLine>>) \o <<"\n">>

\* the same buffer with the header field written without the minus sign
ScenarioUnsigned == Join(<<HdrArea, Coord1, SentinelLine>>) \o <<"\n">>

\* the point of Coord1
Coord1Point == parse_track_line(Coord1)[1]

\* C6 as stated: the buffer with the signed header yields one Track with an
\* Area header (record 1, "2024-01-15 10:30", 5 records) and one point.
C6_SignedHeaderAccepted ==
    (ppc = "done" /\ data = ScenarioSigned)
        => /\ Len(tracks) = 1
           /\ tracks[1].header # None
           /\ tracks[1].header[1].type = "Area"
           /\ tracks[1].header[1].record_num = 1
           /\ tracks[1].header[1].timestamp = "2024-01-15 10:30"
           /\ tracks[1].header[1].total_records = 5
           /\ Len(tracks[1].points) = 1

\* C6 amended: the line with the minus sign matches neither grammar and is
\* discarded, so that buffer yields one Track with header None holding the
\* one point; written without the minus sign the same buffer yields one
\* Track with an Area header (record 1, "2024-01-15 10:30", 5 records,
\* latitude 41.0, longitude 8.23) and one point.
C6_SignedHeaderDiscarded ==
    /\ (ppc = "done" /\ data = ScenarioSigned)
          => tracks = <<Track(None, <<Coord1Point>>)>>
    /\ (ppc = "done" /\ data = ScenarioUnsigned)
          => tracks = <<Track(Some([type          |-> "Area",
                                    record_num    |-> 1,
                                    latitude      |-> 410000000,
                                    longitude     |-> 82300000,
                                    timestamp     |-> "2024-01-15 10:30",
                                    total_records |-> 5]),
                              <<Coord1Point>>)>>

\* C6 witness: the buffer with the signed header has been parsed
C6_Witness == ppc = "done" /\ data = ScenarioSigned /\ Len(tracks) = 1

\* C7: the headers of the returned Tracks that have one are the parsed
\* header lines of the buffer, in order, one Track per header line; a header
\* line directly followed by another header line gives a Track without
\* points.
C7_OneTrackPerHeaderLine ==
    ppc = "done" =>
        LET toks == TokLines(data)
            hp   == HeaderPositions(toks)
            hts  == SelectSeq(tracks, HasHeader)
        IN  /\ Len(hts) = Len(hp)
            /\ \A h \in 1..Len(hp) :
                  /\ hts[h].header = parse_header_line(toks[hp[h]])
                  /\ (h < Len(hp) /\ hp[h + 1] = hp[h] + 1) => hts[h].points = <<>>

\* C7 witness: two header lines in a row, then a point
C7_Witness ==
    /\ ppc = "done"
    /\ data = Join(<<HdrArea, HdrTrack, Coord1>>)
    /\ Len(tracks) = 2
    /\ tracks[1].points = <<>>
    /\ tracks[2].points # <<>>

\* C8: the points of all Tracks, in Track order, are the parsed coordinate
\* lines of the buffer in order; the points before the first header line
\* are those of the headerless Track, and the points of every other Track
\* are those between its header line and the next header line.
C8_PointsConservedAndOwned ==
    ppc = "done" =>
        LET toks == TokLines(data)
            hp   == HeaderPositions(toks)
            lead == PointsIn(toks, 0, NextHeader(toks, hp, 0))
            off  == IF lead = <<>> THEN 0 ELSE 1
        IN  /\ Flatten(tracks) = PointsIn(toks, 0, Len(toks) + 1)
            /\ Len(tracks) = off + Len(hp)
            /\ off = 1 => (tracks[1].header = None /\ tracks[1].points = lead)
            /\ \A h \in 1..Len(hp) :
                  /\ tracks[off + h].header # None
                  /\ tracks[off + h].points = PointsIn(toks, hp[h], NextHeader(toks, hp, h))

\* C8 witness: two points under one header
C8_Witness ==
    /\ ppc = "done"
    /\ data = Join(<<HdrArea, Coord1, Coord2>>)
    /\ Len(tracks) = 1
    /\ Len(tracks[1].points) = 2
    /\ tracks[1].points[1] = Coord1Point

\* C9: coordinate lines received before any header line form a first Track
\* with header None; a buffer with coordinate lines and no header line
\* yields exactly that one Track, holding all points in order.
C9_LeadingPointsKept ==
    ppc = "done" =>
        LET toks == TokLines(data)
            hp   == HeaderPositions(toks)
            lead == PointsIn(toks, 0, NextHeader(toks, hp, 0))
        IN  lead # <<>> =>
                /\ tracks # <<>>
                /\ tracks[1] = Track(None, lead)
                /\ hp = <<>> => tracks = <<Track(None, PointsIn(toks, 0, Len(toks) + 1))>>

\* C9 witness: two coordinate lines, then a header line
C9_Witness ==
    /\ ppc = "done"
    /\ data = Join(<<Coord1, Coord2, HdrTrack>>)
    /\ Len(tracks) = 2
    /\ tracks[1].header = None
    /\ Len(tracks[1].points) = 2

\* C10: at the end of the input the Track being built, if it has a header or
\* a point, is the last Track returned, whether or not a "!" line or a
\* newline ends the buffer: it is the last header line (or None) with the
\* points that follow it.
C10_LastTrackEmitted ==
    ppc = "done" =>
        LET toks  == TokLines(data)
            hp    == HeaderPositions(toks)
            lastH == IF hp = <<>> THEN 0 ELSE hp[Len(hp)]
            pts   == PointsIn(toks, lastH, Len(toks) + 1)
        IN  /\ (current_header # None \/ current_points # <<>>)
                  => (tracks # <<>> /\ tracks[Len(tracks)] = Track(current_header, current_points))
            /\ (lastH > 0 \/ pts # <<>>)
                  => /\ tracks # <<>>
                     /\ tracks[Len(tracks)] =
                           Track(IF lastH = 0 THEN None ELSE parse_header_line(toks[lastH]), pts)

\* C10 witness: the buffer stops right after a header line, without a
\* sentinel and without a newline
C10_Witness ==
    /\ ppc = "done"
    /\ data = Join(<<HdrArea, Coord1, HdrTrack>>)
    /\ Len(tracks) = 2
    /\ tracks[2].header # None
    /\ tracks[2].points = <<>>

\* the number of header lines among ls
HeaderCount(ls) == Len(SelectSeq(ls, IsHeaderLine))

\* the points of the coordinate lines of ls, in order
RECURSIVE PointsOf(_)
PointsOf(ls) ==
    IF ls = <<>> THEN <<>>
    ELSE (IF IsCoordLine(ls[1]) THEN <<parse_track_line(ls[1])[1]>> ELSE <<>>)
            \o PointsOf(Tail(ls))

\* the points of the coordinate lines of ls that come before its first header line
RECURSIVE LeadingPoints(_)
LeadingPoints(ls) ==
    IF ls = <<>> \/ IsHeaderLine(ls[1]) THEN <<>>
    ELSE (IF IsCoordLine(ls[1]) THEN <<parse_track_line(ls[1])[1]>> ELSE <<>>)
            \o LeadingPoints(Tail(ls))

\* the for loop is at a blank line or at a "!" line
AtSkippedLine == ppc = "lines" /\ lines # <<>> /\ Skipped(CurrentLine)

\* C11: a blank line or a "!" line is dropped: the step that consumes it
\* leaves the current header, the current points and the Tracks as they
\* were, so over all the lines of the buffer (dropped ones included) the
\* points returned are those of the coordinate lines and the Tracks are one
\* per header line plus one for leading points; coordinate lines on both
\* sides of a "!" line with no header between them are in one Track.
C11_SentinelAndBlankDropped ==
    /\ [][AtSkippedLine => /\ tracks' = tracks
                           /\ current_header' = current_header
                           /\ current_points' = current_points
                           /\ lines' = Tail(lines)]_vars
    /\ [](ppc = "done" =>
            LET sl == StrippedLines(data)
            IN  /\ Flatten(tracks) = PointsOf(sl)
                /\ Len(tracks) = HeaderCount(sl)
                                    + (IF LeadingPoints(sl) # <<>> THEN 1 ELSE 0)
                /\ LeadingPoints(sl) # <<>>
                      => tracks[1] = Track(None, LeadingPoints(sl)))

\* C11 witness: a point, a "!" line, a point: one Track with both points
C11_Witness ==
    /\ ppc = "done"
    /\ data = Join(<<Coord1, SentinelLine, Coord2>>)
    /\ Len(tracks) = 1
    /\ Len(tracks[1].points) = 2

\* the for loop is at a line that is to be classified
AtClassifiedLine == ppc = "lines" /\ lines # <<>> /\ ~Skipped(CurrentLine)

\* C12: a line that is neither blank nor "!" is handled as exactly one of
\* header, coordinate, discarded: the two grammars never match the same
\* line; a line matching the header grammar is handled as a header; a
\* discarded line leaves the current header, the current points and the
\* Tracks already emitted unchanged.
C12_OneClassPerLine ==
    /\ [](AtClassifiedLine =>
            ~(parse_header_line(CurrentLine) # None /\ parse_track_line(CurrentLine) # None))
    /\ [][(AtClassifiedLine /\ parse_header_line(CurrentLine) # None)
            => /\ current_header' = parse_header_line(CurrentLine)
               /\ current_points' = <<>>]_vars
    /\ [][(AtClassifiedLine /\ parse_header_line(CurrentLine) = None
                            /\ parse_track_line(CurrentLine) # None)
            => /\ current_points' = Append(current_points, parse_track_line(CurrentLine)[1])
               /\ current_header' = current_header
               /\ tracks' = tracks]_vars
    /\ [][(AtClassifiedLine /\ parse_header_line(CurrentLine) = None
                            /\ parse_track_line(CurrentLine) = None)
            => /\ current_header' = current_header
               /\ current_points' = current_points
               /\ tracks' = tracks
               /\ lines' = Tail(lines)]_vars

\* C12 witness: a line of neither grammar was consumed after a header and
\* a point, which are both still there
C12_Witness ==
    /\ ppc = "lines"
    /\ data = Join(<<HdrArea, Coord1, Junk>>)
    /\ lines = <<>>
    /\ current_header # None
    /\ Len(current_points) = 1
    /\ tracks = <<>>


(***************************************************************************)
(* parse_raw_data over generated header lines (HeaderSpec).                *)
(***************************************************************************)
\* most digits of a generated timestamp field
MaxStampDigits == 13

\* the letters tried as field codes: those of the table, one that is not in
\* it, and one that is not in [a-z]
FieldCodes == {"m", "l", "p", "k", "a", "M"}

\* the scaled integers tried as field values
ScaledValues == {<<"0","4","1","0","0","0","0","0","0","0">>, <<"7">>}

StampDigits == <<"2","0","2","4","0","1","1","5","1","0","3","0","9","8","7","6">>

\* timestamp fields: too short, 12 digits, too long, and 12 digits that are
\* no calendar date
Stamps ==
    {SubSeq(StampDigits, 1, n) : n \in 10..MaxStampDigits}
        \cup {<<"9","9","9","9","9","9","9","9","9","9","9","9">>}

\* n0001,<f1><v1>,<f2><v2>;t<ts>,N0005
HeaderLine(f1, v1, f2, v2, ts) ==
    <<"n","0","0","0","1",",", f1>> \o v1 \o <<",", f2>> \o v2 \o <<";","t">> \o ts
        \o <<",","N","0","0","0","5">>

\* a point, the generated line, a point, and a final newline
HeaderBuffer(f1, v1, f2, v2, ts) ==
    Join(<<Coord1, HeaderLine(f1, v1, f2, v2, ts), Coord2>>) \o <<"\n">>

HeaderBuffers ==
    {HeaderBuffer(f1, v1, f2, v2, ts) :
        f1 \in FieldCodes, v1 \in ScaledValues, f2 \in FieldCodes, v2 \in ScaledValues,
        ts \in Stamps}

HeaderInit ==
    /\ data \in HeaderBuffers
    /\ lines = <<>>
    /\ current_header = None
    /\ current_points = <<>>
    /\ tracks = <<>>
    /\ ppc = "start"
    /\ heap = <<>>
    /\ returned = <<>>

HeaderSpecInit == SessionInit /\ HeaderInit /\ ExportIdle /\ AppIdle

HeaderSpec == HeaderSpecInit /\ [][ParseNext]_vars

\* the point of Coord2
Coord2Point == parse_track_line(Strip(Coord2))[1]

\* the Tracks of a HeaderBuffer whose generated line is taken as a header
\* of the given kind and coordinates (in 1e-7 degrees)
HeaderTracks(kind, lat, lon, ts) ==
    <<Track(None, <<Coord1Point>>),
      Track(Some([type          |-> kind,
                  record_num    |-> 1,
                  latitude      |-> lat,
                  longitude     |-> lon,
                  timestamp     |-> FormatTimestamp(ts),
                  total_records |-> 5]),
            <<Coord2Point>>)>>

\* the Tracks of a HeaderBuffer whose generated line is discarded
DiscardTracks == <<Track(None, <<Coord1Point, Coord2Point>>)>>

\* C14: a header line with field pair (m,l) is an Area with latitude =
\* value1 and longitude = value2; with (l,m) a Distance with longitude =
\* value1 and latitude = value2; with (p,p) a Waypoint with latitude =
\* value1 and longitude = value2; each value being the integer field counted
\* in units of 1/10,000,000 degree.
C14_KindTable ==
    ppc = "done" =>
        \A v1 \in ScaledValues, v2 \in ScaledValues, ts \in Stamps :
            /\ data = HeaderBuffer("m", v1, "l", v2, ts)
                  => tracks = HeaderTracks("Area", ToInt(v1), ToInt(v2), ts)
            /\ data = HeaderBuffer("l", v1, "m", v2, ts)
                  => tracks = HeaderTracks("Distance", ToInt(v2), ToInt(v1), ts)
            /\ data = HeaderBuffer("p", v1, "p", v2, ts)
                  => tracks = HeaderTracks("Waypoint", ToInt(v1), ToInt(v2), ts)

\* C14 witness: a Distance header with two different values (longitude
\* first) has been parsed
C14_Witness ==
    /\ ppc = "done"
    /\ data = HeaderBuffer("l", <<"7">>, "m", <<"0","4","1","0","0","0","0","0","0","0">>,
                           SubSeq(StampDigits, 1, 12))
    /\ Len(tracks) = 2
    /\ tracks[2].header[1].type = "Distance"
    /\ tracks[2].header[1].longitude = 7
    /\ tracks[2].header[1].latitude = 410000000

\* the field pairs of the table
TablePairs == {<<"m", "l">>, <<"l", "m">>, <<"p", "p">>, <<"k", "l">>}

\* C15: a header line with field pair (k,l) has kind Track, longitude =
\* value2 and latitude 0 (value1 unused); with any other pair of lowercase
\* letters outside the table it has kind Unknown(field1,field2) and latitude
\* and longitude 0; in both cases the line is a header: it closes the Track
\* of the points before it and starts the Track of the points after it.
C15_TrackAndUnknownKinds ==
    ppc = "done" =>
        \A f1 \in FieldCodes \cap LowerCase, f2 \in FieldCodes \cap LowerCase,
           v1 \in ScaledValues, v2 \in ScaledValues, ts \in Stamps :
            data = HeaderBuffer(f1, v1, f2, v2, ts) =>
                /\ (f1 = "k" /\ f2 = "l")
                      => tracks = HeaderTracks("Track", 0, ToInt(v2), ts)
                /\ <<f1, f2>> \notin TablePairs
                      => tracks = HeaderTracks("Unknown(" \o f1 \o "," \o f2 \o ")", 0, 0, ts)

\* C15 witness: a header with a field pair that is not in the table
C15_Witness ==
    /\ ppc = "done"
    /\ data = HeaderBuffer("a", <<"7">>, "m", <<"7">>, SubSeq(StampDigits, 1, 12))
    /\ Len(tracks) = 2
    /\ tracks[2].header[1].type = "Unknown(a,m)"
    /\ tracks[2].points = <<Coord2Point>>

\* C16 as stated: the timestamp of a header comes from exactly 12 digits,
\* split into 4+2+2+2+2 digits without validation, and a line whose t field
\* has fewer or more than 12 digits is not taken as a header (it is
\* discarded, so the two points share one Track).
C16_TwelveDigitStampOnly ==
    ppc = "done" =>
        \A f1 \in FieldCodes, f2 \in FieldCodes,
           v1 \in ScaledValues, v2 \in ScaledValues, ts \in Stamps :
            data = HeaderBuffer(f1, v1, f2, v2, ts) =>
                /\ Len(ts) # 12 => tracks = DiscardTracks
                /\ (Len(ts) = 12 /\ f1 \in LowerCase /\ f2 \in LowerCase)
                      => /\ Len(tracks) = 2
                         /\ tracks[2].header[1].timestamp =
                               Str(SubSeq(ts, 1, 4)) \o "-" \o Str(SubSeq(ts, 5, 6)) \o "-"
                                  \o Str(SubSeq(ts, 7, 8)) \o " " \o Str(SubSeq(ts, 9, 10))
                                  \o ":" \o Str(SubSeq(ts, 11, 12))


(***************************************************************************)
(* parse_raw_data called again and again (ReparseSpec).                    *)
(***************************************************************************)
\* calls of parse_raw_data in one behaviour
MaxCalls == 3

\* a header line whose record number has one digit more than int() converts
HdrOverlong ==
    <<"n">> \o [i \in 1..(IntMaxStrDigits + 1) |-> "1"]
        \o <<",","m","1",",","l","1",";","t","2","0","2","4","0","1","1","5","1","0","3","0",
              ",","N","1">>

\* buf with a byte that is not ASCII put before each of its bytes
Soiled(buf) ==
    [i \in 1..(2 * Len(buf)) |->
        IF i % 2 = 0 THEN buf[i \div 2] ELSE IF i % 4 = 1 THEN "0x80" ELSE "0xFF"]

\* pairs of lines that match a grammar
ValidPairs == {<<HdrArea, Coord1>>, <<Coord1, Coord2>>}

\* the pair with a line of neither grammar put between its lines
WithNoise(pr) == Join(<<pr[1], Junk, pr[2]>>)

\* a buffer without a line of either grammar
Unparseable == Join(<<Junk, HdrSigned, SentinelLine>>)

\* a buffer with the overlong header between two coordinate lines
Overlong == Join(<<Coord1, HdrOverlong, Coord2>>)

CallBuffers ==
    {Join(pr) : pr \in ValidPairs}
        \cup {Soiled(Join(pr)) : pr \in ValidPairs}
        \cup {WithNoise(pr) : pr \in ValidPairs}
        \cup {Unparseable, Overlong}

ReparseInit ==
    /\ data \in CallBuffers
    /\ lines = <<>>
    /\ current_header = None
    /\ current_points = <<>>
    /\ tracks = <<>>
    /\ ppc = "start"
    /\ heap = <<>>
    /\ returned = <<>>

\* lines 386 and 397: an exception of parse_header_line or parse_track_line
\* is not caught and ends parse_raw_data
ParseRaise ==
    /\ UNCHANGED <<sessionVars, exportVars, appVars>>
    /\ ppc = "lines" /\ lines # <<>>
    /\ ~Skipped(CurrentLine)
    /\ LineRaises(CurrentLine)
    /\ returned' = Append(returned, Ended("ValueError", <<>>))
    /\ ppc' = "raised"
    /\ UNCHANGED <<data, lines, current_header, current_points, tracks, heap>>

\* parse_raw_data is called once more, on any of the buffers
ParseAgain ==
    /\ UNCHANGED <<sessionVars, exportVars, appVars>>
    /\ ppc \in {"done", "raised"}
    /\ Len(returned) < MaxCalls
    /\ data' \in CallBuffers
    /\ ppc' = "start"
    /\ UNCHANGED <<lines, current_header, current_points, tracks, heap, returned>>

ReparseNext ==
    \/ ParseNext
    \/ ParseRaise
    \/ ParseAgain

ReparseSpecInit == SessionInit /\ ReparseInit /\ ExportIdle /\ AppIdle

ReparseSpec == ReparseSpecInit /\ [][ReparseNext]_vars

\* the calls that have ended
Calls == 1..Len(returned)

\* buf without its bytes >= 0x80
AsciiOnly(buf) == SelectSeq(buf, LAMBDA b : b \notin {"0x80", "0xFF"})

\* C13 as stated: every call of parse_raw_data returns a Track list without
\* raising; a buffer in which no line matches either grammar gives zero
\* Tracks; and a buffer with a malformed line put between two valid lines
\* gives the Tracks of the buffer without that line.
C13_NoFailureEscapes ==
    /\ ppc # "raised"
    /\ \A i \in Calls : returned[i].outcome = "returned"
    /\ \A i \in Calls :
          (\A k \in 1..Len(StrippedLines(returned[i].data)) :
              /\ ~IsHeaderLine(StrippedLines(returned[i].data)[k])
              /\ ~IsCoordLine(StrippedLines(returned[i].data)[k]))
            => returned[i].value = <<>>
    /\ \A i \in Calls, j \in Calls, pr \in ValidPairs :
          (returned[i].data = Join(pr) /\ returned[j].data = WithNoise(pr))
            => returned[i].value = returned[j].value

\* C19: a call on a buffer and a call on the same buffer without its bytes
\* >= 0x80 end the same way (no decoding error) and with equal Tracks.
C19_NonAsciiBytesDropped ==
    \A i \in Calls, j \in Calls :
        returned[j].data = AsciiOnly(returned[i].data)
            => /\ returned[i].outcome = returned[j].outcome
               /\ returned[i].value = returned[j].value

\* C19 witness: a buffer with a non-ASCII byte before each byte, and the
\* buffer without them, gave the same header and point
C19_Witness ==
    /\ Len(returned) >= 2
    /\ returned[1].data = Soiled(Join(<<HdrArea, Coord1>>))
    /\ returned[2].data = Join(<<HdrArea, Coord1>>)
    /\ returned[1].value = returned[2].value
    /\ Len(returned[1].value) = 1
    /\ returned[1].value[1].header # None
    /\ returned[1].value[1].points = <<Coord1Point>>

\* C20: two calls on the same buffer end the same way with equal Tracks,
\* whatever calls came before or between them; each call returns a list of
\* its own; and the list a call returned still holds what it held at the
\* return, whatever was called later.
C20_StatelessAndDeterministic ==
    /\ \A i \in Calls, j \in Calls :
          returned[i].data = returned[j].data
            => /\ returned[i].outcome = returned[j].outcome
               /\ returned[i].value = returned[j].value
    /\ \A i \in Calls, j \in Calls : i # j => returned[i].obj # returned[j].obj
    /\ \A i \in Calls :
          returned[i].outcome = "returned" => heap[returned[i].obj] = returned[i].value

\* C20 witness: a buffer parsed, another buffer parsed, the first parsed again
C20_Witness ==
    /\ Len(returned) = 3
    /\ returned[1].data = Join(<<HdrArea, Coord1>>)
    /\ returned[2].data = Join(<<Coord1, Coord2>>)
    /\ returned[3].data = returned[1].data
    /\ returned[3].value = returned[1].value
    /\ returned[1].value # <<>>
    /\ heap[returned[1].obj] = returned[1].value


(***************************************************************************)
(* Shape of the result of parse_raw_data.                                  *)
(***************************************************************************)
\* C26: in the list parse_raw_data returns, a Track with header None can
\* only be the first Track and then has at least one point; every later
\* Track has a header (so at most one Track is headerless).
C26_HeaderlessTrackOnlyFirst ==
    ppc = "done" =>
        /\ \A k \in 1..Len(tracks) :
              tracks[k].header = None => (k = 1 /\ tracks[k].points # <<>>)
        /\ Cardinality({k \in 1..Len(tracks) : tracks[k].header = None}) <= 1

\* C26 witness: leading points, then a header without points, then a header
\* with a point
C26_Witness ==
    /\ ppc = "done"
    /\ Len(tracks) = 3
    /\ tracks[1].header = None /\ tracks[1].points # <<>>
    /\ tracks[2].header # None /\ tracks[2].points = <<>>
    /\ tracks[3].header # None


(***************************************************************************)
(* RunOnSpec: parse_raw_data on lines that carry characters after a        *)
(* complete record (a lost newline, trailing garbage).                     *)
(***************************************************************************)
MaxRunLines == 2

\* Coord2 as line.strip() leaves it
CoordShort == Strip(Coord2)

\* the complete records a line starts with
HeaderRecords == {HdrTrack, HdrArea}

CoordRecords == {CoordShort}

\* what follows the record on its line: nothing, a letter, the coordinate
\* line that should have come on the next line (with and without its
\* indentation), a header line, a digit
RunExtras ==
    {<<>>, <<"x">>, <<" ">> \o CoordShort, CoordShort, HdrTrack, <<"7">>}

\* the lines: a record and what follows it, or a line that starts with no
\* complete record
RunOnLines ==
    {r \o x : r \in HeaderRecords \cup CoordRecords, x \in RunExtras} \cup {Junk}

RunOnBuffers ==
    {Join(ls) \o (IF nl THEN <<"\n">> ELSE <<>>) :
        ls \in UNION {[1..n -> RunOnLines] : n \in 0..MaxRunLines}, nl \in BOOLEAN}

RunOnInit ==
    /\ data \in RunOnBuffers
    /\ lines = <<>>
    /\ current_header = None
    /\ current_points = <<>>
    /\ tracks = <<>>
    /\ ppc = "start"
    /\ heap = <<>>
    /\ returned = <<>>

RunOnSpecInit == SessionInit /\ RunOnInit /\ ExportIdle /\ AppIdle

RunOnSpec == RunOnSpecInit /\ [][ParseNext]_vars

\* the digits x starts with: N(\d+), the last item of the header grammar,
\* takes the digits that follow the record into the record
LeadingDigits(x) == SubSeq(x, 1, SkipDigits(x, 1) - 1)

\* the loop has taken the line at the head of `lines`
LineTaken == ppc = "lines" /\ lines # <<>> /\ lines' = Tail(lines)

\* C32: a line that starts with a complete header record is taken as that
\* header whatever follows the record (digits directly after it belong to
\* its last field): the header becomes the current header, and a
\* coordinate record on the same line adds no point.  A line that starts
\* with a complete coordinate record adds that record's point whatever
\* follows it, and a header record behind it is not taken.
C32_RecordsMatchedAsPrefixes ==
    [][LineTaken =>
          \A x \in RunExtras :
              /\ \A h \in HeaderRecords :
                    CurrentLine = h \o x =>
                        /\ current_header' = parse_header_line(h \o LeadingDigits(x))
                        /\ current_points' = <<>>
              /\ \A c \in CoordRecords :
                    CurrentLine = c \o x =>
                        /\ current_points' = Append(current_points, parse_track_line(c)[1])
                        /\ current_header' = current_header
                        /\ tracks' = tracks]_vars

\* C32 witness: a Track header with the first coordinate line run onto it,
\* then a coordinate line followed by a letter: the Track has one point
C32_Witness ==
    /\ ppc = "done"
    /\ data = Join(<<HdrTrack \o <<" ">> \o CoordShort, CoordShort \o <<"x">> >>)
    /\ tracks = <<Track(parse_header_line(HdrTrack), <<parse_track_line(CoordShort)[1]>>)>>


(***************************************************************************)
(* CoordSpec: parse_raw_data over coordinate lines generated from degrees, *)
(* minutes and seconds, each magnitude once with either sign.              *)
(***************************************************************************)
\* the degrees of a coordinate: text and value
DegreesSet ==
    {[txt |-> <<"0">>, val |-> 0], [txt |-> <<"0","0","8">>, val |-> 8],
     [txt |-> <<"1","7","9">>, val |-> 179]}

\* the minutes of a coordinate: text and value
MinutesSet ==
    {[txt |-> <<"0","0">>, val |-> 0], [txt |-> <<"3","5">>, val |-> 35],
     [txt |-> <<"5","9">>, val |-> 59]}

\* the seconds of a coordinate: text, and value as num / 10^scale
SecondsSet ==
    {[int |-> <<"0","0">>, frac |-> <<"0">>, num |-> 0, scale |-> 0],
     [int |-> <<"2","8">>, frac |-> <<"8","6","5","0">>, num |-> 28865, scale |-> 3],
     [int |-> <<"5","9">>, frac |-> <<"9","9">>, num |-> 5999, scale |-> 2]}

Magnitudes == [deg : DegreesSet, min : MinutesSet, sec : SecondsSet]

\* the text of a coordinate: sign, degrees, d, minutes, ', seconds, "
DmsText(sign, x) ==
    <<sign>> \o x.deg.txt \o <<"d">> \o x.min.txt \o <<"'">>
        \o x.sec.int \o <<".">> \o x.sec.frac \o <<"\"">>

\* a coordinate line of longitude, latitude and altitude 7
DmsLine(s1, x, s2, y) == DmsText(s1, x) \o <<",">> \o DmsText(s2, y) \o <<",","7",";">>

\* a header, the magnitudes x and y as +x, -y and then as -x, +y, and a
\* truncated line
DmsBuffer(x, y) ==
    Join(<<HdrArea, DmsLine("+", x, "-", y), SentinelLine, DmsLine("-", x, "+", y), Junk>>)

DmsBuffers == {DmsBuffer(x, y) : x, y \in Magnitudes}

CoordInit ==
    /\ data \in DmsBuffers
    /\ lines = <<>>
    /\ current_header = None
    /\ current_points = <<>>
    /\ tracks = <<>>
    /\ ppc = "start"
    /\ heap = <<>>
    /\ returned = <<>>

CoordSpecInit == SessionInit /\ CoordInit /\ ExportIdle /\ AppIdle

CoordSpec == CoordSpecInit /\ [][ParseNext]_vars

\* degrees + minutes/60 + seconds/3600 of a magnitude, as num / (3600 * 10^scale)
Magnitude(x) ==
    [num   |-> (x.deg.val * 3600 + x.min.val * 60) * Pow10(x.sec.scale) + x.sec.num,
     scale |-> x.sec.scale]

\* the same value with the other sign
Negated(v) == [num |-> 0 - v.num, scale |-> v.scale]

\* C24: the value of '+' followed by a magnitude is degrees + minutes/60 +
\* seconds/3600, and the value of '-' followed by the same magnitude is its
\* negation: the sign applies to the whole sum, minutes and seconds are
\* never subtracted from the magnitude.
C24_SignAppliesToSum ==
    \A x, y \in Magnitudes :
        (ppc = "done" /\ data = DmsBuffer(x, y)) =>
            /\ Len(tracks) = 1
            /\ tracks[1].points =
                   << <<Magnitude(x), Negated(Magnitude(y)), 7>>,
                      <<Negated(Magnitude(x)), Magnitude(y), 7>> >>
            /\ parse_dms_coordinate(DmsText("-", x)) =
                   Some(Negated(parse_dms_coordinate(DmsText("+", x))[1]))

\* C24 witness: -179d59'59.99" and +179d59'59.99" were both parsed
C24_Witness ==
    /\ ppc = "done"
    /\ Len(tracks) = 1 /\ Len(tracks[1].points) = 2
    /\ tracks[1].points[1][1] = [num |-> 64799999, scale |-> 2]
    /\ tracks[1].points[2][1] = [num |-> 0 - 64799999, scale |-> 2]


(***************************************************************************)
(* Consecutive sessions on one connection.                                 *)
(***************************************************************************)
\* C30: no byte that reached the input buffer before the trigger of a
\* download was written appears in the session buffer of that download: a
\* session buffer that holds bytes holds bytes that arrived after the
\* trigger.  (The trigger is written SettleTicks before start_time, and a
\* byte delivered after it is stamped start_time or later.)
C30_NoByteFromBeforeTrigger ==
    (call = "download" /\ pc \in {"loop", "exit", "tail", "returned"} /\ all_data # <<>>)
        => last_arrival >= start_time

(***************************************************************************)
(* download without an open connection.                                    *)
(***************************************************************************)
\* C31: a download called while no connection is open opens the port
\* exactly once, as its first operation on the transport.  When that fails
\* it is the only operation made (no trigger byte is written, nothing is
\* polled or read), download has returned None, no raw file is written and
\* no connection is open; when it succeeds the connection is open for the
\* rest of the download and after it returned.
C31_ConnectOnceOrNone ==
    (call = "download" /\ OpsAt({"open"}) # {}) =>
        /\ OpsAt({"open"}) = {1}
        /\ ~io[1].ok => /\ io = <<Ev("open", <<>>, FALSE)>>
                        /\ pc = "returned"
                        /\ ret = NoneVal
                        /\ raw_file = NoneVal
                        /\ ~IsOpen
        /\ io[1].ok => IsOpen

\* C31 witness: download was called after a disconnect and its connect()
\* failed
C31_Witness ==
    /\ call = "download" /\ pc = "returned"
    /\ serial_conn = "closed"
    /\ io = <<Ev("open", <<>>, FALSE)>>
    /\ ret = NoneVal

(***************************************************************************)
(* export_tracks: the text it builds and the files it writes.              *)
(***************************************************************************)
MaxExportLines == 4

UpperCaseText == "ABCDEFGHIJKLMNOPQRSTUVWXYZ"

LowerCaseText == "abcdefghijklmnopqrstuvwxyz"

\* str.lower() of one character
LowerChar(c) ==
    IF \E i \in 1..26 : SubSeq(UpperCaseText, i, i) = c
    THEN LET i == CHOOSE i \in 1..26 : SubSeq(UpperCaseText, i, i) = c
         IN  SubSeq(LowerCaseText, i, i)
    ELSE c

\* str.lower()
RECURSIVE Lower(_)
Lower(s) == IF s = "" THEN "" ELSE LowerChar(SubSeq(s, 1, 1)) \o Lower(SubSeq(s, 2, Len(s)))

\* str.replace(old, new) for a one-character old
RECURSIVE Replace(_, _, _)
Replace(s, old, new) ==
    IF s = "" THEN ""
    ELSE (IF SubSeq(s, 1, 1) = old THEN new ELSE SubSeq(s, 1, 1))
             \o Replace(SubSeq(s, 2, Len(s)), old, new)

\* f'{n}' of a natural number
RECURSIVE IntStr(_)
IntStr(n) ==
    IF n < 10 THEN SubSeq("0123456789", n + 1, n + 1)
    ELSE IntStr(n \div 10) \o SubSeq("0123456789", (n % 10) + 1, (n % 10) + 1)

\* zero padding on the left up to width w
RECURSIVE ZeroPad(_, _)
ZeroPad(s, w) == IF Len(s) < w THEN ZeroPad("0" \o s, w) ELSE s

\* f'{n:04d}'
Int04d(n) == ZeroPad(IntStr(n), 4)

\* the first k decimals of r / den (0 <= r < den) as a number, and the
\* remainder left after them
RECURSIVE Decimals(_, _, _)
Decimals(r, den, k) ==
    IF k = 0 THEN [digits |-> 0, rem |-> r]
    ELSE LET d == Decimals(r, den, k - 1)
         IN  [digits |-> d.digits * 10 + ((d.rem * 10) \div den),
              rem    |-> (d.rem * 10) % den]

\* (mutant) the value cut off after 7 decimals
Units7Truncated(v) ==
    LET a   == IF v.num < 0 THEN 0 - v.num ELSE v.num
        den == 3600 * Pow10(v.scale)
    IN  (a \div den) * 10000000 + Decimals(a % den, den, 7).digits

\* the magnitude of a coordinate in units of 1e-7 degrees, rounded to the
\* nearest unit (half to even)
Units7(v) ==
    LET a   == IF v.num < 0 THEN 0 - v.num ELSE v.num
        den == 3600 * Pow10(v.scale)
        d   == Decimals(a % den, den, 7)
        n   == (a \div den) * 10000000 + d.digits
    IN  IF 2 * d.rem > den \/ (2 * d.rem = den /\ n % 2 = 1) THEN n + 1 ELSE n

\* f'{x:.7f}' of a coordinate (a value of zero is written without sign)
Fixed7(v) ==
    LET n == Units7(v)
    IN  (IF v.num < 0 THEN "-" ELSE "") \o IntStr(n \div 10000000) \o "."
            \o ZeroPad(IntStr(n % 10000000), 7)

\* the files are kept as their lines, each written with "\n" after it
\* line 491: f'{lon:.7f},{lat:.7f},{alt}\n'
CsvRow(pt) == Fixed7(pt[1]) \o "," \o Fixed7(pt[2]) \o "," \o IntStr(pt[3])

RECURSIVE CsvRows(_)
CsvRows(points) ==
    IF points = <<>> THEN <<>> ELSE <<CsvRow(Head(points))>> \o CsvRows(Tail(points))

\* export_to_csv(points, output_file): lines 489-491
export_to_csv(points) == <<"longitude,latitude,altitude">> \o CsvRows(points)

\* line 435: f'          {lon:.7f},{lat:.7f},{alt}\n'
KmlRow(pt) == "          " \o CsvRow(pt)

RECURSIVE KmlRows(_)
KmlRows(points) ==
    IF points = <<>> THEN <<>> ELSE <<KmlRow(Head(points))>> \o KmlRows(Tail(points))

\* line 415
DisplayName(track_name, timestamp) ==
    IF timestamp # "" THEN track_name \o " - " \o timestamp ELSE track_name

\* export_to_kml(points, output_file, track_name, timestamp): lines 415-445
export_to_kml(points, track_name, timestamp) ==
    << "<?xml version=\"1.0\" encoding=\"UTF-8\"?>",
       "<kml xmlns=\"http://www.opengis.net/kml/2.2\">",
       "  <Document>",
       "    <name>" \o DisplayName(track_name, timestamp) \o "</name>",
       "    <Placemark>",
       "      <name>" \o DisplayName(track_name, timestamp) \o "</name>" >>
    \o (IF timestamp # ""
        THEN << "      <TimeStamp>",
                "        <when>" \o Replace(timestamp, " ", "T") \o ":00Z</when>",
                "      </TimeStamp>" >>
        ELSE <<>>)
    \o << "      <LineString>",
          "        <coordinates>" >>
    \o KmlRows(points)
    \o << "        </coordinates>",
          "      </LineString>",
          "    </Placemark>",
          "  </Document>",
          "</kml>" >>

\* lines 469-471: the three lines of a point
GpxRow(pt) ==
    << "      <trkpt lat=\"" \o Fixed7(pt[2]) \o "\" lon=\"" \o Fixed7(pt[1]) \o "\">",
       "        <ele>" \o IntStr(pt[3]) \o "</ele>",
       "      </trkpt>" >>

RECURSIVE GpxRows(_)
GpxRows(points) ==
    IF points = <<>> THEN <<>> ELSE GpxRow(Head(points)) \o GpxRows(Tail(points))

\* export_to_gpx(points, output_file, track_name): lines 458-477
export_to_gpx(points, track_name) ==
    << "<?xml version=\"1.0\" encoding=\"UTF-8\"?>",
       "<gpx version=\"1.1\" creator=\"Wanggan GPS Python Library\"",
       "  xmlns=\"http://www.topografix.com/GPX/1/1\"",
       "  xmlns:xsi=\"http://www.w3.org/2001/XMLSchema-instance\"",
       "  xsi:schemaLocation=\"http://www.topografix.com/GPX/1/1 http://www.topografix.com/GPX/1/1/gpx.xsd\">",
       "  <trk>",
       "    <name>" \o track_name \o "</name>",
       "    <trkseg>" >>
    \o GpxRows(points)
    \o << "    </trkseg>",
          "  </trk>",
          "</gpx>" >>

\* lines 545-550 and 561-566: the exporter chosen by the format
Exported(fmt, points, track_name, timestamp) ==
    IF fmt = OutputFormat.KML THEN export_to_kml(points, track_name, timestamp)
    ELSE IF fmt = OutputFormat.GPX THEN export_to_gpx(points, track_name)
    ELSE export_to_csv(points)

\* lines 531-535: the file name of a Track with a header
HeaderFileBase(h) ==
    Lower(h.type) \o "_n" \o Int04d(h.record_num) \o "_"
        \o Replace(Replace(Replace(h.timestamp, "-", ""), " ", "_"), ":", "")

\* lines 530-541: file_base of the Track at enumerate index i
FileBase(t, i, prefix) ==
    IF t.header # None THEN HeaderFileBase(t.header[1]) ELSE prefix \o "_" \o Int04d(i + 1)

\* lines 536 and 540: track_name
TrackName(t, i) ==
    IF t.header # None
    THEN t.header[1].type \o " " \o IntStr(t.header[1].record_num)
    ELSE "Track " \o IntStr(i + 1)

\* lines 537 and 541: track_timestamp
TrackTimestamp(t) == IF t.header # None THEN t.header[1].timestamp ELSE ""

\* line 543: self.output_dir / f"{file_base}.{format.value}"
TrackPath(t, i, prefix, fmt) == FileBase(t, i, prefix) \o "." \o fmt

\* line 559: self.output_dir / f"{filename_prefix}.{format.value}"
SinglePath(prefix, fmt) == prefix \o "." \o fmt

\* (mutant) the combined file takes the Tracks last to first
RECURSIVE AllPointsLastFirst(_)
AllPointsLastFirst(ts) ==
    IF ts = <<>> THEN <<>> ELSE AllPointsLastFirst(Tail(ts)) \o ts[1].points

\* lines 555-557: all_points, extended Track by Track
RECURSIVE AllPoints(_)
AllPoints(ts) == IF ts = <<>> THEN <<>> ELSE ts[1].points \o AllPoints(Tail(ts))

\* (mutant) per-track files whenever they are asked for
SplitModeAsked == split_by_track

\* line 524: split_by_track and any(h is not None for h, p in tracks)
SplitMode == split_by_track /\ \E k \in 1..Len(tracks) : tracks[k].header # None

\* (mutant) every Track is written
SkipsTrackNever(t) == FALSE

\* line 526: if not points: continue
SkipsTrack(t) == t.points = <<>>

\* (mutant) the combined file is written only when there are points
SingleCreatedIfPoints(path, points) == IF points = <<>> THEN <<>> ELSE <<path>>

\* line 568: created_files.append(output_file)
SingleCreated(path, points) == <<path>>

\* the header lines and coordinate lines an export is run on
ExportVocabulary == {HdrArea, HdrTrack, Coord1, Coord2}

\* up to MaxExportLines lines, then an empty line and a truncated one
ExportBuffers ==
    {Join(ls \o <<<<>>, Junk>>) :
        ls \in UNION {[1..n -> ExportVocabulary] : n \in 0..MaxExportLines}}

Formats == {OutputFormat[f] : f \in DOMAIN OutputFormat}

\* export_tracks(data, format, split_by_track) has been called
ExportInit ==
    /\ data \in ExportBuffers
    /\ lines = <<>>
    /\ current_header = None
    /\ current_points = <<>>
    /\ tracks = <<>>
    /\ ppc = "idle"
    /\ heap = <<>>
    /\ returned = <<>>
    /\ format \in Formats
    /\ split_by_track \in BOOLEAN
    /\ filename_prefix = "track"
    /\ epc = "called"
    /\ idx = 0
    /\ created_files = <<>>
    /\ files = <<>>

\* line 521: tracks = self.parse_raw_data(data)
ExportParse ==
    /\ epc = "called" /\ format # OutputFormat.RAW
    /\ ppc' = "start"
    /\ epc' = "parsing"
    /\ UNCHANGED <<appVars, sessionVars, data, lines, current_header, current_points, tracks, heap,
                   returned, format, split_by_track, filename_prefix, idx, created_files,
                   files>>

\* lines 522-525: created_files = [], the per-track loop begins
ExportSplit ==
    /\ epc = "parsing" /\ ppc = "done"
    /\ SplitMode
    /\ created_files' = <<>>
    /\ idx' = 0
    /\ epc' = "loop"
    /\ UNCHANGED <<appVars, sessionVars, parseVars, format, split_by_track, filename_prefix, files>>

\* lines 526-527: a Track without points is passed over
ExportSkipTrack ==
    /\ epc = "loop" /\ idx < Len(tracks)
    /\ SkipsTrack(tracks[idx + 1])
    /\ idx' = idx + 1
    /\ UNCHANGED <<appVars, sessionVars, parseVars, format, split_by_track, filename_prefix, epc,
                   created_files, files>>

\* lines 529-552: the Track is written to its file
ExportTrack ==
    /\ epc = "loop" /\ idx < Len(tracks)
    /\ ~SkipsTrack(tracks[idx + 1])
    /\ LET t    == tracks[idx + 1]
           path == TrackPath(t, idx, filename_prefix, format)
       IN  /\ files' = Append(files, <<path, Exported(format, t.points, TrackName(t, idx),
                                                      TrackTimestamp(t))>>)
           /\ created_files' = Append(created_files, path)
    /\ idx' = idx + 1
    /\ UNCHANGED <<appVars, sessionVars, parseVars, format, split_by_track, filename_prefix, epc>>

\* lines 553-568: one file with the points of all Tracks
ExportSingle ==
    /\ epc = "parsing" /\ ppc = "done"
    /\ ~SplitMode
    /\ LET path == SinglePath(filename_prefix, format)
       IN  /\ files' = Append(files, <<path, Exported(format, AllPoints(tracks),
                                                      "GPS Track", "")>>)
           /\ created_files' = SingleCreated(path, AllPoints(tracks))
    /\ epc' = "returned"
    /\ UNCHANGED <<appVars, sessionVars, parseVars, format, split_by_track, filename_prefix, idx>>

\* line 570: return created_files, after the per-track loop
ExportReturn ==
    /\ epc = "loop" /\ idx = Len(tracks)
    /\ epc' = "returned"
    /\ UNCHANGED <<appVars, sessionVars, parseVars, format, split_by_track, filename_prefix, idx,
                   created_files, files>>

ExportNext ==
    \/ ExportRaw
    \/ ExportParse
    \/ ParseNext
    \/ ExportSplit
    \/ ExportSkipTrack
    \/ ExportTrack
    \/ ExportSingle
    \/ ExportReturn

ExportSpecInit == SessionInit /\ ExportInit /\ AppIdle

ExportSpec == ExportSpecInit /\ [][ExportNext]_vars


(***************************************************************************)
(* Claims about export_tracks.                                             *)
(***************************************************************************)
\* an export to GPX, KML or CSV has returned
Exported3 == epc = "returned" /\ format # OutputFormat.RAW

\* the positions of the Tracks that have at least one point
WithPoints == {i \in 1..Len(tracks) : tracks[i].points # <<>>}

\* the position of the k-th Track that has at least one point
NthWithPoints(k) == CHOOSE i \in WithPoints : Cardinality({j \in WithPoints : j <= i}) = k

C22_CombinedIsConcatenation ==
    (Exported3 /\ ~SplitMode) =>
        /\ Len(files) = 1
        /\ files[1][2] = Exported(format, Flatten(tracks), "GPS Track", "")
        /\ files[1][2] = Exported(format, PointsOf(TokLines(data)), "GPS Track", "")

\* C22 witness: a combined file of two Tracks with different points
C22_Witness ==
    /\ Exported3 /\ ~SplitMode
    /\ Len(tracks) = 2
    /\ tracks[1].header = None
    /\ tracks[1].points = <<Coord1Point>>
    /\ tracks[2].points = <<Coord2Point, Coord1Point>>
    /\ Len(files) = 1

\* C27: the paths returned by a per-track export are pairwise distinct, so
\* that no Track's file is overwritten by a later Track of the same export.
C27_PathsPairwiseDistinct ==
    (Exported3 /\ SplitMode) =>
        \A i, j \in 1..Len(created_files) : i # j => created_files[i] # created_files[j]

\* what export_tracks does with split_by_track = False: one combined file
CombinedOutcome ==
    /\ created_files = <<SinglePath(filename_prefix, format)>>
    /\ files = << <<SinglePath(filename_prefix, format),
                    Exported(format, PointsOf(TokLines(data)), "GPS Track", "")>> >>

\* C28: per-track files are written only if a parsed Track has a header;
\* when no Track has one (or there is no Track) the export is the combined
\* one, whatever split_by_track is.
C28_SplitNeedsAHeader ==
    Exported3 =>
        /\ (\A k \in 1..Len(tracks) : tracks[k].header = None) => CombinedOutcome
        /\ ~CombinedOutcome => \E k \in 1..Len(tracks) : tracks[k].header # None

\* C28 witness: split_by_track on a buffer of coordinate lines only
C28_Witness ==
    /\ Exported3 /\ split_by_track
    /\ Len(tracks) = 1 /\ tracks[1].header = None
    /\ Len(tracks[1].points) >= 2
    /\ created_files = <<"track." \o format>>

\* C29: an export that is not per-track writes and returns exactly one file,
\* with no point entry when the buffer yields no point; a per-track export
\* whose Tracks all lack points returns the empty list.
C29_SingleFileAlwaysWritten ==
    /\ (Exported3 /\ ~SplitMode) =>
          /\ Len(created_files) = 1
          /\ Len(files) = 1
          /\ files[1][1] = created_files[1]
          /\ (PointsOf(TokLines(data)) = <<>>)
                => files[1][2] = Exported(format, <<>>, "GPS Track", "")
    /\ (Exported3 /\ SplitMode /\ WithPoints = {}) =>
          created_files = <<>> /\ files = <<>>

\* C29 witness: one file without point entries from a buffer with a header
\* and no coordinate line, exported with split_by_track = False
C29_Witness ==
    /\ Exported3 /\ ~split_by_track
    /\ Len(tracks) = 1 /\ tracks[1].points = <<>>
    /\ Len(created_files) = 1
    /\ Len(files) = 1 /\ files[1][2] = Exported(format, <<>>, "GPS Track", "")

\* ---- reading a CSV file back ----
\* the position of the first sep in s, 0 if there is none
FirstOf(s, sep) ==
    IF \E i \in 1..Len(s) : SubSeq(s, i, i) = sep
    THEN CHOOSE i \in 1..Len(s) :
            SubSeq(s, i, i) = sep /\ \A j \in 1..(i - 1) : SubSeq(s, j, j) # sep
    ELSE 0

\* s.split(sep)
RECURSIVE SplitOn(_, _)
SplitOn(s, sep) ==
    IF FirstOf(s, sep) = 0 THEN <<s>>
    ELSE <<SubSeq(s, 1, FirstOf(s, sep) - 1)>>
            \o SplitOn(SubSeq(s, FirstOf(s, sep) + 1, Len(s)), sep)

\* s consists of decimal digits, at least one
IsDigits(s) ==
    /\ s # ""
    /\ \A i \in 1..Len(s) : \E d \in 0..9 : SubSeq(s, i, i) = SubSeq("0123456789", d + 1, d + 1)

\* the number written by the digits s
RECURSIVE ReadNat(_)
ReadNat(s) ==
    IF s = "" THEN 0
    ELSE ReadNat(SubSeq(s, 1, Len(s) - 1)) * 10
            + (CHOOSE d \in 0..9 : SubSeq(s, Len(s), Len(s)) = SubSeq("0123456789", d + 1, d + 1))

\* a decimal number read back from a field: whether it is negative, and
\* its magnitude in units of 1e-7 (the field has exactly 7 decimals)
ReadFixed7(s) ==
    LET neg  == s # "" /\ SubSeq(s, 1, 1) = "-"
        body == IF neg THEN SubSeq(s, 2, Len(s)) ELSE s
        prt  == SplitOn(body, ".")
    IN  IF Len(prt) = 2 /\ IsDigits(prt[1]) /\ IsDigits(prt[2]) /\ Len(prt[2]) = 7
        THEN Some([neg |-> neg, units |-> ReadNat(prt[1]) * 10000000 + ReadNat(prt[2])])
        ELSE None

\* n units of 1e-7 is the coordinate v rounded to 7 decimals: with
\* |v| = q + (3600 * w + z) / (3600 * 10^scale), |v| * 10^7 is
\* q * 10^7 + w * 10^(7 - scale) + z * 5 * 10^(4 - scale) / 18
IsRounded7(n, v) ==
    LET a   == IF v.num < 0 THEN 0 - v.num ELSE v.num
        den == 3600 * Pow10(v.scale)
        q   == a \div den
        w   == (a % den) \div 3600
        z   == (a % den) % 3600
        b   == q * 10000000 + w * Pow10(7 - v.scale)
        e   == (n - b) * 18 - z * 5 * Pow10(4 - v.scale)
    IN  /\ n - b \in 0..10000000
        /\ e \in (0 - 9)..9

\* a field read back is the coordinate v rounded to 7 decimals
ReadsAs(field, v) ==
    LET r == ReadFixed7(field)
    IN  /\ r # None
        /\ IsRounded7(r[1].units, v)
        /\ r[1].neg = (v.num < 0)

\* the points the k-th file written by the export was made from
PointsWritten(k) ==
    IF SplitMode THEN tracks[NthWithPoints(k)].points ELSE AllPoints(tracks)

\* C23: a CSV file read back by splitting on newlines and commas gives,
\* after the row longitude,latitude,altitude, one row of three fields for
\* every point written, in the same order, with the same altitude and with
\* longitude and latitude equal to the point's rounded to 7 decimals.
C23_CsvRoundTrip ==
    (epc = "returned" /\ format = OutputFormat.CSV) =>
        \A k \in 1..Len(files) :
            LET rows == files[k][2]
                pts  == PointsWritten(k)
            IN  /\ rows[1] = "longitude,latitude,altitude"
                /\ Len(rows) = Len(pts) + 1
                /\ \A j \in 1..Len(pts) :
                      LET f == SplitOn(rows[j + 1], ",")
                      IN  /\ Len(f) = 3
                          /\ ReadsAs(f[1], pts[j][1])
                          /\ ReadsAs(f[2], pts[j][2])
                          /\ IsDigits(f[3]) /\ ReadNat(f[3]) = pts[j][3]

\* C23 witness: a CSV file of three rows, the first of a longitude that is
\* rounded up (8.59135149999... is written 8.5913515) and the second of a
\* negative longitude
C23_Witness ==
    /\ epc = "returned" /\ format = OutputFormat.CSV
    /\ Len(files) = 1
    /\ files[1][2] = << "longitude,latitude,altitude",
                        "8.5913515,41.1146058,1769",
                        "-8.5914167,41.1147222,18",
                        "8.5913515,41.1146058,1769" >>


(***************************************************************************)
(* Claims about the raw capture.                                           *)
(***************************************************************************)
\* C25: the raw file written by download holds exactly the bytes the
\* reception accumulated and returned, and is written only if bytes were
\* received and save_raw or raw_filename asks for it; the RAW export of the
\* returned bytes writes exactly those bytes to one file and returns that
\* one path.
C25_RawCaptureVerbatim ==
    /\ (call = "download" /\ pc = "returned") =>
          /\ raw_file = IF Truthy(ret) /\ (save_raw \/ raw_filename # "None")
                        THEN BytesVal(all_data)
                        ELSE NoneVal
          /\ (LoopEnded /\ all_data = <<>>) => raw_file = NoneVal
          /\ LoopEnded => \E a, b \in 0..MaxBytes : all_data = Run(a + 1, b)
    /\ epc = "returned" =>
          /\ created_files = <<"track.txt">>
          /\ files = << <<"track.txt", all_data>> >>
          /\ ret = BytesVal(all_data)

\* C25 witness: three bytes received, saved by download and written again
\* by the RAW export
C25_Witness ==
    /\ call = "download" /\ pc = "returned" /\ epc = "returned"
    /\ save_raw
    /\ all_data = <<1, 2, 3>>
    /\ raw_file = BytesVal(<<1, 2, 3>>)
    /\ files = << <<"track.txt", <<1, 2, 3>> >> >>


(***************************************************************************)
(* GuiSpec: the EasyGUI application (src/wanggan_gps_gui.py).  apc is the  *)
(* screen run() is at: "welcome", "connection" (inside                     *)
(* show_connection_screen), "menu" (inside main_menu), "handler" (the      *)
(* `except Exception` clause of run, before its message box) and "done"    *)
(* (run has returned or raised).  Of the library object self.gps only the  *)
(* connection is followed; time and the device are left out.               *)
(***************************************************************************)
\* what the GUI leaves alone
guiFrame ==
    <<rxbuf, written, dev_sent, rx_mark, last_arrival, now, callVars, recvVars,
      outVars, io, parseVars, exportVars>>

\* str.strip() of a text
RECURSIVE StripText(_)
StripText(s) ==
    IF s # "" /\ SubSeq(s, 1, 1) = " " THEN StripText(SubSeq(s, 2, Len(s)))
    ELSE IF s # "" /\ SubSeq(s, Len(s), Len(s)) = " " THEN StripText(SubSeq(s, 1, Len(s) - 1))
    ELSE s

\* the text without a leading sign
Unsigned(s) ==
    IF s # "" /\ SubSeq(s, 1, 1) \in {"+", "-"} THEN SubSeq(s, 2, Len(s)) ELSE s

Sign(s) == IF s # "" /\ SubSeq(s, 1, 1) = "-" THEN 0 - 1 ELSE 1

\* Line 142, int(text): blanks around, an optional sign, decimal digits;
\* None stands for ValueError.
IntText(text) ==
    LET u == Unsigned(StripText(text))
    IN  IF IsDigits(u) THEN Some(Sign(StripText(text)) * ReadNat(u)) ELSE None

\* the position of the first "." of s, 0 if there is none
DotAt(s) ==
    IF \E i \in 1..Len(s) : SubSeq(s, i, i) = "."
    THEN CHOOSE i \in 1..Len(s) :
            /\ SubSeq(s, i, i) = "."
            /\ \A k \in 1..(i - 1) : SubSeq(s, k, k) # "."
    ELSE 0

\* the decimals d as thousandths: "5" is 500, "25" is 250
Thousandths(d) ==
    IF Len(d) = 0 THEN 0
    ELSE IF Len(d) = 1 THEN ReadNat(d) * 100
    ELSE IF Len(d) = 2 THEN ReadNat(d) * 10
    ELSE ReadNat(SubSeq(d, 1, 3))

\* Line 143, float(text) of a decimal text (blanks around, an optional
\* sign, digits with at most one "." among them), in thousandths; None
\* stands for ValueError.
FloatText(text) ==
    LET u == Unsigned(StripText(text))
        k == DotAt(u)
        w == IF k = 0 THEN u ELSE SubSeq(u, 1, k - 1)
        d == IF k = 0 THEN "" ELSE SubSeq(u, k + 1, Len(u))
    IN  IF /\ w \o d # ""
           /\ w = "" \/ IsDigits(w)
           /\ d = "" \/ IsDigits(d)
        THEN Some(Sign(StripText(text)) * (ReadNat(w) * 1000 + Thousandths(d)))
        ELSE None

\* line 145: new_values[3].lower() in ['yes', 'y', 'true', '1']
YesText(text) == Lower(text) \in {"yes", "y", "true", "1"}

\* the texts typed into the four fields of the settings dialog
BaudTexts == {"9600", " 57600", "9600.0"}

TimeoutTexts == {"2.5", "3", "2,5"}

DirTexts == {"downloads", "out"}

AutoTexts == {"yes", "Y", "no"}

\* what easygui.multenterbox returns: None (Cancel) or the four texts
NewValues ==
    {None} \cup {Some(<<b, t, d, a>>) :
                    b \in BaudTexts, t \in TimeoutTexts, d \in DirTexts, a \in AutoTexts}

SavedMsg == "Settings saved successfully!"

InvalidMsg == "Invalid values entered. Settings not changed."

\* Lines 138-152: the fields after show_settings.  The four assignments
\* run in order inside one try block; a ValueError leaves the block at the
\* assignment that raised it, after the assignments before it.
SettingsAfter(g, nv) ==
    IF nv = None THEN g
    ELSE LET b == IntText(nv[1][1])
             t == FloatText(nv[1][2])
         IN  IF b = None THEN g
             ELSE IF t = None THEN [g EXCEPT !.baudrate = b[1]]
             ELSE [g EXCEPT !.baudrate        = b[1],
                            !.timeout         = t[1],
                            !.output_dir      = nv[1][3],
                            !.auto_create_dir = YesText(nv[1][4])]

\* lines 147-152: the message box show_settings ends with
SettingsMsgbox(nv) ==
    IF nv = None THEN "none"
    ELSE IF IntText(nv[1][1]) = None \/ FloatText(nv[1][2]) = None THEN InvalidMsg
    ELSE SavedMsg

\* lines 707-711: cleanup
CleanupNeeded(g) == g.gps # "None" /\ g.connected

Cleanup(g) == IF CleanupNeeded(g) THEN [g EXCEPT !.connected = FALSE] ELSE g

CleanupConn(g, conn) == IF CleanupNeeded(g) THEN Disconnected(conn) ELSE conn

\* the ports offered by the connection screen
Ports == {"COM5", "COM7"}

GuiInit ==
    /\ gui = GuiDefaults
    /\ apc = "welcome"
    /\ msgbox = "none"

\* Lines 83-114 and 720-721: the welcome screen.  Exit makes run return.
Welcome ==
    /\ apc = "welcome"
    /\ \E choice \in {"Continue", "Exit"} :
          apc' = IF choice = "Exit" THEN "done" ELSE "connection"
    /\ UNCHANGED <<gui, msgbox, serial_conn, guiFrame>>

\* lines 111-112 and 116-152: Settings on the welcome screen
WelcomeSettings ==
    /\ apc = "welcome"
    /\ apc' = "connection"
    /\ \E nv \in NewValues :
          /\ gui' = SettingsAfter(gui, nv)
          /\ msgbox' = SettingsMsgbox(nv)
    /\ UNCHANGED <<serial_conn, guiFrame>>

\* lines 204-205 and 724-727: the port list is cancelled, run returns
ConnectionCancel ==
    /\ apc = "connection"
    /\ apc' = "done"
    /\ UNCHANGED <<gui, msgbox, serial_conn, guiFrame>>

\* Lines 228-241 and 244-288: a port is chosen and connect_to_device is
\* called.  `made` is whether WangganGPS(...) returned an object, `ok` what
\* its connect() returned, `shown` whether the "Successfully connected"
\* message box returned (it is called inside the try block, after
\* self.connected = True).  When connect_to_device returns False the user
\* is asked whether to try again.
ConnectionTry ==
    /\ apc = "connection"
    /\ \E p \in Ports, made \in BOOLEAN, ok \in BOOLEAN, shown \in BOOLEAN,
          retry \in BOOLEAN :
          /\ gui' = [gui EXCEPT !.port = p,
                                !.gps = IF made THEN "WangganGPS" ELSE @,
                                !.connected = IF made /\ ok THEN TRUE ELSE @]
          /\ serial_conn' = IF ~made THEN serial_conn
                            ELSE IF ok THEN "open" ELSE "None"
          /\ msgbox' = IF ~made THEN "Connection Error"
                       ELSE IF ~ok THEN "Connection Failed"
                       ELSE IF shown THEN "Connection Successful"
                       ELSE "Connection Error"
          /\ apc' = IF made /\ ok /\ shown THEN "menu"
                    ELSE IF retry THEN "connection" ELSE "done"
    /\ UNCHANGED guiFrame

\* Lines 690-696: the download workflow of the main menu; what it can change
\* in the GUI object is the output folder (lines 384-392).  Its errors are
\* caught and reported inside it.
MenuDownload ==
    /\ apc = "menu"
    /\ \E d \in DirTexts \cup {gui.output_dir} :
          gui' = [gui EXCEPT !.output_dir = d]
    /\ msgbox' = "Export Complete"
    /\ UNCHANGED <<apc, serial_conn, guiFrame>>

\* lines 698-699: Settings in the main menu
MenuSettings ==
    /\ apc = "menu"
    /\ \E nv \in NewValues :
          /\ gui' = SettingsAfter(gui, nv)
          /\ msgbox' = SettingsMsgbox(nv)
    /\ UNCHANGED <<apc, serial_conn, guiFrame>>

\* lines 701-705: Help and About
MenuHelp ==
    /\ apc = "menu"
    /\ msgbox' \in {"Usage Guide", "About"}
    /\ UNCHANGED <<gui, apc, serial_conn, guiFrame>>

\* lines 687-688 and 730-741: Disconnect & Exit, or the menu is closed:
\* main_menu returns, run calls cleanup and says goodbye
MenuExit ==
    /\ apc = "menu"
    /\ apc' = "done"
    /\ gui' = Cleanup(gui)
    /\ serial_conn' = CleanupConn(gui, serial_conn)
    /\ msgbox' = "Goodbye"
    /\ UNCHANGED guiFrame

\* lines 743-744: KeyboardInterrupt while a screen of run is shown
Interrupted ==
    /\ apc \in {"welcome", "connection", "menu"}
    /\ apc' = "done"
    /\ gui' = Cleanup(gui)
    /\ serial_conn' = CleanupConn(gui, serial_conn)
    /\ UNCHANGED <<msgbox, guiFrame>>

\* line 745: a dialog of run raises an exception that no inner try block
\* catches
Failed ==
    /\ apc \in {"welcome", "connection", "menu"}
    /\ apc' = "handler"
    /\ UNCHANGED <<gui, msgbox, serial_conn, guiFrame>>

\* Lines 745-751: the message box of the handler, then cleanup.  When the
\* message box itself raises (`shown` is FALSE), run ends there.
Handler ==
    /\ apc = "handler"
    /\ apc' = "done"
    /\ \E shown \in BOOLEAN :
          /\ gui' = IF shown THEN Cleanup(gui) ELSE gui
          /\ serial_conn' = IF shown THEN CleanupConn(gui, serial_conn) ELSE serial_conn
          /\ msgbox' = IF shown THEN "Error" ELSE msgbox
    /\ UNCHANGED guiFrame

GuiNext ==
    \/ Welcome
    \/ WelcomeSettings
    \/ ConnectionCancel
    \/ ConnectionTry
    \/ MenuDownload
    \/ MenuSettings
    \/ MenuHelp
    \/ MenuExit
    \/ Interrupted
    \/ Failed
    \/ Handler

GuiSpecInit == SessionInit /\ ParseIdle /\ ExportIdle /\ GuiInit

GuiSpec == GuiSpecInit /\ [][GuiNext]_vars

\* the four settings
Settings(g) == <<g.baudrate, g.timeout, g.output_dir, g.auto_create_dir>>

\* C34: whenever the settings dialog ends with the message "Invalid values
\* entered. Settings not changed.", baudrate, timeout, output directory and
\* auto-create flag are what they were before the dialog.
C34_SettingsAllOrNothing ==
    [][msgbox' = InvalidMsg => Settings(gui') = Settings(gui)]_vars

\* C35: the main menu is shown only while connected is True, and when run
\* has ended cleanup has been carried out: connected is False and the
\* connection of the device is not open.
C35_MenuConnectedExitCleansUp ==
    /\ apc = "menu" => gui.connected
    /\ apc = "done" => (~gui.connected /\ serial_conn # "open")

=============================================================================
